---- MODULE Spec2Model ----
(***************************************************************************)
(* ChronoForge memory pipeline: the sliding window of conversation turns   *)
(* (SlidingWindowManager), the delayed GRAG update that trails the newest  *)
(* turn (DelayedUpdateManager), the reconciliation against the chat host's *)
(* history (ConflictResolver) and the extractor selection of the           *)
(* synchronous path (GameEngine.extract_updates_from_response), the       *)
(* knowledge graph with its conflict resolution, deletions and context     *)
(* subgraph (KnowledgeGraph), its mirror file data/entities.json           *)
(* (GRAGMemory) and the session registry of the server (api_server).       *)
(*                                                                         *)
(* Abstractions: the wall clock counts whole hours and a turn's timestamp   *)
(* is the hour it was created or last updated in; grag_timestamp is kept   *)
(* only as set / not set; uuid4 turn ids are fresh naturals 1, 2, ...;     *)
(* the 64-bit prefix of sha256 is taken to be collision free, so a content *)
(* hash is the formatted string that is hashed; the LLM is an environment  *)
(* whose answer is chosen nondeterministically.                            *)
(***************************************************************************)
EXTENDS Integers, Sequences, FiniteSets, TLC

\* ------------------------------------------------------------------ bounds
MaxEvictions == 2  \* add_turn is disabled once this many turns were evicted
MaxEdits == 1      \* edits of in-window turns are disabled after this many
MaxSyncs == 1      \* sync_conversation_state is disabled after this many syncs
MaxClearedIds == 2 \* clear_window is disabled once more than this many ids were drawn
MaxDirect == 1     \* extract_updates_from_response is disabled after this many calls
MaxResolverSyncs == 2   \* the sync bound of the resolver-only specification
MaxApplies == 3    \* plans applied to the graph of the graph specification
MaxDepth == 2      \* largest depth asked of get_subgraph_for_context
MaxSessionOps == 4 \* requests handled by the server of the sessions specification
MaxConversations == 2   \* add_conversation calls before prompts are built
MaxClock == 30     \* the clock is not advanced past this many hours

\* ------------------------------------------------------- program constants
DefaultWindowSize == 4        \* SlidingWindowManager.__init__ window_size
DefaultProcessingDelay == 1   \* SlidingWindowManager.__init__ processing_delay
HotMemorySize == 10           \* GRAGMemory.__init__ hot_memory_size

\* ------------------------------------------------------------- input sets
None == "None"                         \* Python None of an optional text argument
ReplyTexts == {"a", "b"}              \* llm_response values
BlankTexts == {"", " "}               \* texts that str.strip() empties
ForeignId == 99                        \* a host id the server never issued
NoId == 0                              \* record without "id" / no target turn
NoSeq == -1                            \* record without "sequence": get("sequence") is None

NoPath == <<>>                         \* graph_save_path = None
TestPath == <<"ui_test", "test_character">>   \* the graph file of a test session
\* PYTHONHASHSEED values: with 0 a set of the strings in use iterates "a"
\* before "b", with 2 "b" before "a"
HashSeeds == {0, 2}

\* (window_size, processing_delay) pairs a session is created with
SmallConfigs == {<<2, 1>>, <<3, 2>>}
DefaultConfigs == {<<DefaultWindowSize, DefaultProcessingDelay>>}

VARIABLES
    window_size, processing_delay,   \* SlidingWindowManager configuration
    grag_agent, memory,              \* DelayedUpdateManager: is an agent / a memory configured
    conversations,                   \* deque of ConversationTurn, oldest first
    turn_id_map,                     \* ids indexed by SlidingWindowManager.turn_id_map
    sequence_counter,
    uuid_counter,                    \* number of uuid4 ids drawn so far
    update_stats,                    \* DelayedUpdateManager.update_stats
    hot_memory,                      \* BasicMemory.conversation_history
    graph_nodes, graph_attrs, graph_edges,   \* KnowledgeGraph.graph
    data_changed,                    \* GRAGMemory._data_changed
    state_snapshots,                 \* ConflictResolver.state_snapshots
    conflict_stats,                  \* ConflictResolver.conflict_stats
    direct_calls,                    \* number of extract_updates_from_response calls
    edits_done,                      \* number of edits applied to in-window turns
    last,                            \* what the most recent operation did and returned
    post_seqs,                       \* new_turn_sequence of every process_new_conversation call
    posts_only,                      \* no operation other than process_new_conversation so far
    commits_ok,                      \* every commit so far succeeded
    edit_scn,                        \* progress through: post, post, edit first turn, post
    entities_json,                   \* the file data/entities.json every GRAGMemory reads and writes
    graph_files,                     \* the knowledge-graph file of every storage path
    storage,                         \* TavernStorageManager: character_mapping, active_sessions
    character_dirs,                  \* data/tavern_characters: the directories and their session backups
    sessions,                        \* api_server.sessions: session id -> engine
    sliding_window_managers,         \* api_server.sliding_window_managers
    conflict_resolvers,              \* api_server.conflict_resolvers
    session_ops,                     \* number of requests the server has handled
    reset_ids,                       \* session ids that were reset without keeping data
    calls,                           \* per thread: how far its process_new_conversation call got
    syncs_done,                      \* number of sync_conversation_state calls so far
    state_table,                     \* BasicMemory.state_table: key -> value
    graph_save_path,                 \* GRAGMemory.graph_save_path
    hash_seed,                       \* PYTHONHASHSEED of the process
    clock                            \* datetime.now(), in whole hours since the start

vars == <<window_size, processing_delay, grag_agent, memory, conversations,
          turn_id_map, sequence_counter, uuid_counter, update_stats,
          hot_memory, graph_nodes, graph_attrs, graph_edges, data_changed,
          state_snapshots,
          conflict_stats, direct_calls, edits_done, last, post_seqs, posts_only,
          commits_ok, edit_scn, entities_json, graph_files, storage, character_dirs,
          sessions,
          sliding_window_managers, conflict_resolvers, session_ops, reset_ids,
          calls, syncs_done, state_table, graph_save_path, hash_seed, clock>>

\* what is fixed when the process starts and the session is constructed
cfgVars == <<window_size, processing_delay, grag_agent, memory, graph_save_path,
             hash_seed>>
winVars == <<conversations, turn_id_map, sequence_counter, uuid_counter>>
memVars == <<hot_memory, graph_nodes, graph_attrs, graph_edges, data_changed>>
fileVars == <<entities_json, graph_files, storage, character_dirs>>
registryVars == <<sessions, sliding_window_managers, conflict_resolvers,
                  session_ops, reset_ids>>

\* ------------------------------------------------------------ sequences
\* deque(maxlen=n).append(x)
DequeAppend(d, x, n) ==
    IF n = 0 THEN d
    ELSE IF Len(d) >= n THEN Append(Tail(d), x)
    ELSE Append(d, x)

\* ------------------------------------------------- SlidingWindowManager
\* the window as one value, for the operators that thread it through a call
Window == [window_size |-> window_size,
           processing_delay |-> processing_delay,
           conversations |-> conversations,
           turn_id_map |-> turn_id_map,
           sequence_counter |-> sequence_counter,
           uuid_counter |-> uuid_counter]

\* timestamp=datetime.now(timezone.utc): the hour the clock shows
ConversationTurn(id, seq, u, r) ==
    [turn_id |-> id, sequence |-> seq, user_input |-> u, llm_response |-> r,
     timestamp |-> clock,
     grag_processed |-> FALSE, grag_timestamp |-> None, version |-> 1]

\* a variant that numbers the new turn by its position in the window
add_turn_by_position(w, u, r) ==
    LET seq == Len(w.conversations) + 1
        id == w.uuid_counter + 1
        turn == ConversationTurn(id, seq, u, r)
        full == Len(w.conversations) >= w.window_size
        map1 == IF full THEN w.turn_id_map \ {Head(w.conversations).turn_id}
                ELSE w.turn_id_map
    IN [w EXCEPT !.sequence_counter = @ + 1,
                 !.uuid_counter = id,
                 !.conversations = DequeAppend(w.conversations, turn, w.window_size),
                 !.turn_id_map = map1 \cup {id}]

\* a variant that leaves the id of the evicted turn in turn_id_map
add_turn_keeping_index(w, u, r) ==
    LET seq == w.sequence_counter + 1
        id == w.uuid_counter + 1
        turn == ConversationTurn(id, seq, u, r)
    IN [w EXCEPT !.sequence_counter = seq,
                 !.uuid_counter = id,
                 !.conversations = DequeAppend(w.conversations, turn, w.window_size),
                 !.turn_id_map = w.turn_id_map \cup {id}]

add_turn(w, u, r) ==
    LET seq == w.sequence_counter + 1
        id == w.uuid_counter + 1
        turn == ConversationTurn(id, seq, u, r)
        full == Len(w.conversations) >= w.window_size
        map1 == IF full THEN w.turn_id_map \ {Head(w.conversations).turn_id}
                ELSE w.turn_id_map
    IN [w EXCEPT !.sequence_counter = seq,
                 !.uuid_counter = id,
                 !.conversations = DequeAppend(w.conversations, turn, w.window_size),
                 !.turn_id_map = map1 \cup {id}]

\* bound of the exploration: the window may slide MaxEvictions times
TurnLimit(w) == w.window_size + MaxEvictions
CanAddTurn(w) == w.sequence_counter < TurnLimit(w)

\* the turn add_turn returned
NewestTurn(w) == w.conversations[Len(w.conversations)]

\* a variant that is off by one: conversations[-processing_delay]
TargetIndexOffByOne(w) == Len(w.conversations) - w.processing_delay + 1

\* index (1-based) of conversations[-(processing_delay + 1)]
TargetIndex(w) == Len(w.conversations) - w.processing_delay

\* a variant that returns the target turn whether or not it was processed
get_processing_target_ignoring_processed(w) ==
    IF Len(w.conversations) <= w.processing_delay THEN NoId
    ELSE w.conversations[TargetIndex(w)].turn_id

\* turn_id of the processing target, NoId for None
get_processing_target(w) ==
    IF Len(w.conversations) <= w.processing_delay THEN NoId
    ELSE LET target_turn == w.conversations[TargetIndex(w)]
         IN IF target_turn.grag_processed THEN NoId ELSE target_turn.turn_id

is_in_window(w, turn_id) == turn_id \in w.turn_id_map

IndexOfId(w, turn_id) ==
    CHOOSE i \in 1..Len(w.conversations) : w.conversations[i].turn_id = turn_id

get_turn_by_id(w, turn_id) == w.conversations[IndexOfId(w, turn_id)]

\* a variant that records nothing
mark_processed_skipping(w, turn_id, success) == w

\* the turn is looked up in turn_id_map and its attributes are set; the
\* window shows it when it holds that turn
mark_processed(w, turn_id, success) ==
    IF turn_id \notin w.turn_id_map THEN w
    ELSE [w EXCEPT !.conversations =
             [i \in 1..Len(w.conversations) |->
                 IF w.conversations[i].turn_id = turn_id
                 THEN [w.conversations[i] EXCEPT
                          !.grag_processed = success,
                          !.grag_timestamp = IF success THEN "set" ELSE None]
                 ELSE w.conversations[i]]]

\* a variant that leaves the processed flag of the updated turn as it was
update_turn_keeping_processed(w, turn_id, user_input, llm_response) ==
    IF turn_id \notin w.turn_id_map THEN w
    ELSE LET i == IndexOfId(w, turn_id)
             t == w.conversations[i]
         IN [w EXCEPT !.conversations[i] =
                [t EXCEPT !.user_input = IF user_input # None THEN user_input ELSE @,
                          !.llm_response = IF llm_response # None THEN llm_response ELSE @,
                          !.timestamp = clock,
                          !.version = @ + 1]]

update_turn(w, turn_id, user_input, llm_response) ==
    IF turn_id \notin w.turn_id_map THEN w
    ELSE LET i == IndexOfId(w, turn_id)
             t == w.conversations[i]
         IN [w EXCEPT !.conversations[i] =
                [t EXCEPT !.user_input = IF user_input # None THEN user_input ELSE @,
                          !.llm_response = IF llm_response # None THEN llm_response ELSE @,
                          !.grag_processed = FALSE,
                          !.grag_timestamp = None,
                          !.version = @ + 1,
                          !.timestamp = clock]]

\* sum(1 for turn in conversations if turn.grag_processed)
ProcessedCount(turns) ==
    Cardinality({i \in 1..Len(turns) : turns[i].grag_processed})

\* a variant that reports the pending turns as processed
get_window_info_counting_pending(w) ==
    LET processed_count == Len(w.conversations) - ProcessedCount(w.conversations)
    IN [window_size |-> w.window_size,
        current_turns |-> Len(w.conversations),
        processed_turns |-> processed_count,
        pending_turns |-> Len(w.conversations) - processed_count,
        next_processing_target |-> get_processing_target(w),
        oldest_sequence |-> IF w.conversations # <<>>
                            THEN Head(w.conversations).sequence ELSE 0,
        newest_sequence |-> IF w.conversations # <<>>
                            THEN NewestTurn(w).sequence ELSE 0]

get_window_info(w) ==
    LET processed_count == ProcessedCount(w.conversations)
    IN [window_size |-> w.window_size,
        current_turns |-> Len(w.conversations),
        processed_turns |-> processed_count,
        pending_turns |-> Len(w.conversations) - processed_count,
        next_processing_target |-> get_processing_target(w),
        oldest_sequence |-> IF w.conversations # <<>>
                            THEN Head(w.conversations).sequence ELSE 0,
        newest_sequence |-> IF w.conversations # <<>>
                            THEN NewestTurn(w).sequence ELSE 0]

\* ------------------------------------------------------- KnowledgeGraph
\* A graph value g has g.nodes (the node ids), g.attrs (for every node the
\* dictionary of its attributes, a function from attribute names to values)
\* and g.edges (triples <<source, target, relationship>>).  networkx DiGraph
\* holds one edge per ordered pair, so add_edge on an existing pair overwrites
\* its relationship.  Edge attributes other than the relationship and the
\* wall-clock value of _deleted_timestamp are left out.
EmptyGraph == [nodes |-> {}, attrs |-> <<>>, edges |-> {}]

Min(a, b) == IF a <= b THEN a ELSE b
Max(a, b) == IF a >= b THEN a ELSE b

\* attribute values that are free text or lists carry their kind; the other
\* attributes in use hold numbers, booleans and plain words
Text(s) == [text |-> s]
ListOf(items) == [items |-> items]
KindedAttributes == {"aliases", "note", "label"}
BooleanAttributes == {"_deleted", "is_main_character"}

\* isinstance(value, list) and isinstance(value, (int, float)) on the values in
\* use: lists occur under the kinded attributes only, and the attributes that
\* resolve_attribute_conflict merges as numbers hold numbers
IsList(attribute, value) == attribute \in KindedAttributes /\ "items" \in DOMAIN value
\* (the source also lists a Chinese spelling of each name; the inputs in use
\* are the ASCII spellings)
HealthAttrs == {"health", "hp"}
GrowingAttrs == {"max_health", "max_hp", "level", "experience", "exp"}
IsNumber(attribute, value) == attribute \in HealthAttrs \cup GrowingAttrs

\* list(set(items)): the distinct items in the order in which a set iterates
\* them, which the hash seed of the process decides
HashOrder == IF hash_seed = 0 THEN <<"a", "b">> ELSE <<"b", "a">>
RECURSIVE KeepMembers(_, _)
KeepMembers(order, S) ==
    IF order = <<>> THEN <<>>
    ELSE (IF Head(order) \in S THEN <<Head(order)>> ELSE <<>>)
         \o KeepMembers(Tail(order), S)
list_of_set(items) == KeepMembers(HashOrder, {items[i] : i \in 1..Len(items)})

\* dict.get(key, default)
DictGet(d, key, default) == IF key \in DOMAIN d THEN d[key] ELSE default

\* dict.update(other): other's entries win
DictUpdate(d, other) == other @@ d

\* a variant in which the new value always wins
resolve_attribute_conflict_newest(g, node_id, attribute, old_value, new_value) ==
    IF attribute \in HealthAttrs
    THEN Min(new_value, DictGet(g.attrs[node_id], "max_health", new_value))
    ELSE new_value

\* resolve_attribute_conflict: numeric health is capped by the node's stored
\* max_health; max_health, level and experience keep the larger value; two
\* lists are merged without duplicates; everything else takes the new value
resolve_attribute_conflict(g, node_id, attribute, old_value, new_value) ==
    IF IsNumber(attribute, old_value) /\ IsNumber(attribute, new_value)
    THEN IF attribute \in HealthAttrs
         THEN Min(new_value, DictGet(g.attrs[node_id], "max_health", new_value))
         ELSE Max(old_value, new_value)
    ELSE IF IsList(attribute, old_value) /\ IsList(attribute, new_value)
    THEN ListOf(list_of_set(old_value.items \o new_value.items))
    ELSE new_value

\* a variant that removes the node and leaves its edges behind
kg_delete_node_keeping_edges(g, node_id) ==
    IF node_id \notin g.nodes THEN g
    ELSE [g EXCEPT !.nodes = @ \ {node_id},
                   !.attrs = [n \in g.nodes \ {node_id} |-> g.attrs[n]]]

\* KnowledgeGraph.delete_node: the node goes with all its edges
kg_delete_node(g, node_id) ==
    IF node_id \notin g.nodes THEN g
    ELSE [nodes |-> g.nodes \ {node_id},
          attrs |-> [n \in g.nodes \ {node_id} |-> g.attrs[n]],
          edges |-> {e \in g.edges : e[1] # node_id /\ e[2] # node_id}]

\* KnowledgeGraph.add_or_update_node (no conflict resolution)
kg_add_or_update_node(g, node_id, node_type, kwargs) ==
    LET attributes == ("type" :> node_type) @@ kwargs
    IN IF node_id \in g.nodes
       THEN [g EXCEPT !.attrs[node_id] = DictUpdate(@, attributes)]
       ELSE [g EXCEPT !.nodes = @ \cup {node_id},
                      !.attrs = (node_id :> attributes) @@ @]

\* KnowledgeGraph.add_or_update_node_with_conflict_resolution, which is what
\* GRAGMemory.add_or_update_node calls
add_or_update_node_with_conflict_resolution(g, node_id, node_type, kwargs) ==
    LET attributes == ("type" :> node_type) @@ kwargs
    IN IF node_id \in g.nodes
       THEN LET existing_attrs == g.attrs[node_id]
                resolved_attrs ==
                    [key \in DOMAIN attributes |->
                        IF key \in DOMAIN existing_attrs
                        THEN resolve_attribute_conflict(g, node_id, key,
                                                        existing_attrs[key], attributes[key])
                        ELSE attributes[key]]
            IN [g EXCEPT !.attrs[node_id] = DictUpdate(@, resolved_attrs)]
       ELSE [g EXCEPT !.nodes = @ \cup {node_id},
                      !.attrs = (node_id :> attributes) @@ @]

kg_add_edge(g, source, target, relationship) ==
    IF source \notin g.nodes \/ target \notin g.nodes THEN g
    ELSE [g EXCEPT !.edges =
            {e \in @ : ~(e[1] = source /\ e[2] = target)}
            \cup {<<source, target, relationship>>}]

\* KnowledgeGraph.delete_edge; relationship None deletes whatever the pair holds
kg_delete_edge(g, source, target, relationship) ==
    LET held == {e \in g.edges : e[1] = source /\ e[2] = target}
    IN IF held = {} THEN g
       ELSE IF relationship # None /\ \A e \in held : e[3] # relationship THEN g
       ELSE [g EXCEPT !.edges = @ \ held]

\* KnowledgeGraph.mark_node_as_deleted (soft delete)
mark_node_as_deleted(g, node_id, reason) ==
    IF node_id \notin g.nodes THEN g
    ELSE [g EXCEPT !.attrs[node_id] =
            DictUpdate(@, [_deleted |-> TRUE, _deleted_reason |-> reason,
                           _deleted_timestamp |-> "set"])]

Graph == [nodes |-> graph_nodes, attrs |-> graph_attrs, edges |-> graph_edges]

\* ------------------------------------- KnowledgeGraph.save_graph / load_graph
\* json.dumps of a list of strings: ["a", "b"]
RECURSIVE json_dumps_items(_)
json_dumps_items(items) ==
    IF items = <<>> THEN ""
    ELSE "\"" \o Head(items) \o "\""
         \o (IF Len(items) > 1 THEN ", " ELSE "") \o json_dumps_items(Tail(items))
json_dumps(items) == "[" \o json_dumps_items(items) \o "]"

\* json.loads on a text s[i..], restricted to arrays of strings without
\* escapes; every other text raises JSONDecodeError (ok = FALSE)
CharAt(s, i) == IF i >= 1 /\ i <= Len(s) THEN SubSeq(s, i, i) ELSE ""
RECURSIVE skip_whitespace(_, _)
skip_whitespace(s, i) == IF CharAt(s, i) = " " THEN skip_whitespace(s, i + 1) ELSE i
RECURSIVE closing_quote(_, _)
closing_quote(s, i) ==
    IF i > Len(s) \/ CharAt(s, i) = "\\" THEN 0
    ELSE IF CharAt(s, i) = "\"" THEN i
    ELSE closing_quote(s, i + 1)
JsonError == [ok |-> FALSE, items |-> <<>>]
RECURSIVE json_loads_items(_, _, _)
json_loads_items(s, i, items) ==
    LET j == skip_whitespace(s, i)
        q == closing_quote(s, j + 1)
        k == skip_whitespace(s, q + 1)
    IN IF CharAt(s, j) # "\"" \/ q = 0 THEN JsonError
       ELSE IF CharAt(s, k) = ","
            THEN json_loads_items(s, k + 1, Append(items, SubSeq(s, j + 1, q - 1)))
       ELSE IF CharAt(s, k) = "]" /\ skip_whitespace(s, k + 1) = Len(s) + 1
            THEN [ok |-> TRUE, items |-> Append(items, SubSeq(s, j + 1, q - 1))]
       ELSE JsonError
json_loads(s) ==
    LET i == skip_whitespace(s, 1)
        j == skip_whitespace(s, i + 1)
    IN IF CharAt(s, i) # "[" THEN JsonError
       ELSE IF CharAt(s, j) = "]" /\ skip_whitespace(s, j + 1) = Len(s) + 1
            THEN [ok |-> TRUE, items |-> <<>>]
       ELSE json_loads_items(s, i + 1, <<>>)

\* save_graph: every list attribute is written as its JSON text
SavedValue(key, value) ==
    IF key \in KindedAttributes /\ "items" \in DOMAIN value
    THEN Text(json_dumps(value.items))
    ELSE value
\* load_graph: a string that starts with "[", ends with "]" and parses as JSON
\* is replaced by the parsed list
LoadedValue(key, value) ==
    IF key \in KindedAttributes /\ "text" \in DOMAIN value
    THEN LET s == value.text
         IN IF Len(s) >= 1 /\ CharAt(s, 1) = "[" /\ CharAt(s, Len(s)) = "]"
               /\ json_loads(s).ok
            THEN ListOf(json_loads(s).items)
            ELSE value
    ELSE value

\* what nx.read_graphml returns for a stored value: a data element with empty
\* text yields no attribute, so an empty string is not read back
ReadsBack(key, value) ==
    IF key \in KindedAttributes THEN ~("text" \in DOMAIN value /\ value.text = "")
    ELSE IF key \in HealthAttrs \cup GrowingAttrs \cup BooleanAttributes THEN TRUE
    ELSE value # ""

\* KnowledgeGraph.save_graph / load_graph; without a file at the path the
\* graph stays as it is
save_graph(files, file_path, g) ==
    (file_path :> [g EXCEPT !.attrs =
        [n \in DOMAIN g.attrs |->
            [key \in DOMAIN g.attrs[n] |-> SavedValue(key, g.attrs[n][key])]]]) @@ files
load_graph(g, files, file_path) ==
    IF file_path \in DOMAIN files
    THEN LET stored == files[file_path]
         IN [stored EXCEPT !.attrs =
                [n \in DOMAIN stored.attrs |->
                    [key \in {k \in DOMAIN stored.attrs[n] :
                                 ReadsBack(k, stored.attrs[n][k])}
                        |-> LoadedValue(key, stored.attrs[n][key])]]]
    ELSE g

\* data/entities.json: absent, or the entities and relationships last written
NoFile == [exists |-> FALSE, entities |-> <<>>, relationships |-> {}]

\* the operations of an agent analysis (analysis_result["operations"])
AddNodeOp(node_id, node_type, attributes) ==
    [type |-> "add_node", node_id |-> node_id, node_type |-> node_type,
     attributes |-> attributes]
UpdateNodeOp(node_id, attributes) ==
    [type |-> "update_node", node_id |-> node_id, attributes |-> attributes]
AddEdgeOp(source, target, relationship) ==
    [type |-> "add_edge", source |-> source, target |-> target,
     relationship |-> relationship]
DeleteNodeOp(node_id, deletion_type, reason) ==
    [type |-> "delete_node", node_id |-> node_id, deletion_type |-> deletion_type,
     reason |-> reason]
DeleteEdgeOp(source, target, relationship, reason) ==
    [type |-> "delete_edge", source |-> source, target |-> target,
     relationship |-> relationship, reason |-> reason]

\* the records of an execution format; the record of an update_node operation
\* carries no type.  The attributes of an added edge and the reason of an edge
\* deletion, which no consumer reads, are left out.
NodeAdd(node_id, node_type, attributes) ==
    [node_id |-> node_id, type |-> node_type, attributes |-> attributes]
NodeUpdate(node_id, attributes) ==
    [node_id |-> node_id, attributes |-> attributes]
EdgeAdd(source, target, relationship) ==
    [source |-> source, target |-> target, relationship |-> relationship]
NodeDeletion(node_id, deletion_type, reason) ==
    [node_id |-> node_id, deletion_type |-> deletion_type, reason |-> reason]
EdgeDeletion(source, target, relationship) ==
    [source |-> source, target |-> target, relationship |-> relationship]

NoAttributes == <<>>
NoOperations == <<>>
EmptyPlan == [nodes_to_add |-> <<>>, nodes_to_update |-> <<>>, edges_to_add |-> <<>>,
              nodes_to_delete |-> <<>>, edges_to_delete |-> <<>>]

\* GRAGUpdateAgent.convert_to_execution_format: every operation lands in the
\* list of its kind, in the order of the analysis
RECURSIVE ConvertOperations(_, _)
ConvertOperations(operations, format) ==
    IF operations = <<>> THEN format
    ELSE LET operation == Head(operations)
             op_type == operation.type
         IN ConvertOperations(Tail(operations),
                IF op_type = "add_node"
                THEN [format EXCEPT !.nodes_to_add =
                        Append(@, NodeAdd(operation.node_id, operation.node_type,
                                          operation.attributes))]
                ELSE IF op_type = "update_node"
                THEN [format EXCEPT !.nodes_to_update =
                        Append(@, NodeUpdate(operation.node_id, operation.attributes))]
                ELSE IF op_type = "add_edge"
                THEN [format EXCEPT !.edges_to_add =
                        Append(@, EdgeAdd(operation.source, operation.target,
                                          operation.relationship))]
                ELSE IF op_type = "delete_node"
                THEN [format EXCEPT !.nodes_to_delete =
                        Append(@, NodeDeletion(operation.node_id, operation.deletion_type,
                                               operation.reason))]
                ELSE IF op_type = "delete_edge"
                THEN [format EXCEPT !.edges_to_delete =
                        Append(@, EdgeDeletion(operation.source, operation.target,
                                               operation.relationship))]
                ELSE format)
convert_to_execution_format(operations) == ConvertOperations(operations, EmptyPlan)

\* the analysis the agent of the window specifications delivers
AgentOps == <<AddNodeOp("n1", "item", NoAttributes),
              UpdateNodeOp("n2", NoAttributes),
              AddEdgeOp("n2", "n2", "knows"), AddEdgeOp("n2", "n1", "owns")>>
Analyses == {AgentOps}
Plans == {convert_to_execution_format(operations) : operations \in Analyses}

\* analyses over three nodes: a character with health above its max_health, a
\* meeting, a chain of relations that relabels one pair, a death (soft
\* delete), a loss (hard delete), and edge deletions (exact and wildcard)
HeroOps == <<UpdateNodeOp("n1", [health |-> 120, max_health |-> 100])>>
MeetOps == <<UpdateNodeOp("n1", [health |-> 80]),
             UpdateNodeOp("n2", [location |-> "cave"]),
             AddEdgeOp("n1", "n2", "knows")>>
ChainOps == <<UpdateNodeOp("n2", NoAttributes), UpdateNodeOp("n3", NoAttributes),
              AddEdgeOp("n2", "n3", "owns"), AddEdgeOp("n1", "n2", "likes")>>
DeathOps == <<DeleteNodeOp("n2", "death", "died")>>
LostOps == <<DeleteNodeOp("n1", "lost", "lost")>>
ForgetOps == <<DeleteEdgeOp("n2", "n3", "owns", "forgot"),
               DeleteEdgeOp("*", "n2", "*", "forgot")>>
\* a replacement: the first node is removed and described anew, and its
\* relation to the second node is deleted and added again
ReplaceOps == <<DeleteNodeOp("n1", "lost", "replaced"),
                DeleteEdgeOp("n1", "n2", "knows", "replaced"),
                UpdateNodeOp("n1", [level |-> 1]), UpdateNodeOp("n2", NoAttributes),
                AddEdgeOp("n1", "n2", "knows")>>
\* an edge deletion with every field a wildcard
WipeOps == <<DeleteEdgeOp("*", "*", "*", "wipe")>>
GraphAnalyses == {HeroOps, MeetOps, ChainOps, DeathOps, LostOps, ForgetOps}
\* the analyses of the specification that looks at one apply at a time
ApplyAnalyses == GraphAnalyses \cup {ReplaceOps, WipeOps}

\* the execution formats of these analyses
PlanHero == convert_to_execution_format(HeroOps)
PlanMeet == convert_to_execution_format(MeetOps)
PlanChain == convert_to_execution_format(ChainOps)
PlanDeath == convert_to_execution_format(DeathOps)
PlanLost == convert_to_execution_format(LostOps)
PlanForget == convert_to_execution_format(ForgetOps)
PlanReplace == convert_to_execution_format(ReplaceOps)
PlanWipe == convert_to_execution_format(WipeOps)
GraphPlans == {convert_to_execution_format(operations) : operations \in GraphAnalyses}
ApplyPlans == {convert_to_execution_format(operations) : operations \in ApplyAnalyses}

\* direct GRAGMemory.add_edge calls: two labels for one pair, the reverse pair
EdgeInputs == {<<"n1", "n2", "knows">>, <<"n1", "n2", "likes">>, <<"n2", "n1", "knows">>}


\* ------------------------------------------------- DelayedUpdateManager
\* the node loop of _apply_updates: the type is node_update.get("type", "unknown")
RECURSIVE ApplyNodeUpdates(_, _)
ApplyNodeUpdates(g, nodes) ==
    IF nodes = <<>> THEN g
    ELSE ApplyNodeUpdates(
            add_or_update_node_with_conflict_resolution(
                g, Head(nodes).node_id, DictGet(Head(nodes), "type", "unknown"),
                Head(nodes).attributes),
            Tail(nodes))

RECURSIVE ApplyEdgeAdds(_, _)
ApplyEdgeAdds(g, edges) ==
    IF edges = <<>> THEN g
    ELSE ApplyEdgeAdds(kg_add_edge(g, Head(edges).source, Head(edges).target,
                                   Head(edges).relationship),
                       Tail(edges))

\* only nodes_to_update and edges_to_add are read; without a memory nothing is applied
apply_updates(g, mem, execution_format) ==
    IF ~mem THEN g
    ELSE ApplyEdgeAdds(ApplyNodeUpdates(g, execution_format.nodes_to_update),
                       execution_format.edges_to_add)

\* GRAGMemory.add_or_update_node and add_edge set _data_changed on every call
apply_updates_marks(mem, execution_format) ==
    /\ mem
    /\ \/ execution_format.nodes_to_update # <<>>
       \/ execution_format.edges_to_add # <<>>

\* _process_with_agent: success only when the analysis carries no error marker
\* and nothing raised; no rule extractor is consulted and hot memory is untouched
process_with_agent(g, hot, mem, target_turn, outcome, operations) ==
    IF outcome = "ok"
    THEN LET execution_format == convert_to_execution_format(operations)
         IN [success |-> TRUE, method |-> "grag_agent",
             graph |-> apply_updates(g, mem, execution_format),
             hot_memory |-> hot, rule_ran |-> FALSE,
             data_changed |-> apply_updates_marks(mem, execution_format)]
    ELSE [success |-> FALSE, method |-> "grag_agent", graph |-> g,
          hot_memory |-> hot, rule_ran |-> FALSE, data_changed |-> FALSE]

\* _process_without_agent: the pair is stored in hot memory when a memory exists
process_without_agent(g, hot, mem, target_turn) ==
    [success |-> TRUE, method |-> "simple_storage", graph |-> g,
     hot_memory |-> IF mem
                    THEN DequeAppend(hot, <<target_turn.user_input, target_turn.llm_response>>,
                                     HotMemorySize)
                    ELSE hot,
     rule_ran |-> FALSE,
     data_changed |-> mem]

UsesAgent == grag_agent /\ memory

process_target_turn(g, hot, mem, agent, target_turn, outcome, operations) ==
    IF agent /\ mem
    THEN process_with_agent(g, hot, mem, target_turn, outcome, operations)
    ELSE process_without_agent(g, hot, mem, target_turn)

\* ------------------------------------------------------------ observation
NoSync == [synced_turns |-> 0, conflicts_detected |-> 0, conflicts_resolved |-> 0,
           out_of_window |-> 0, new_turns |-> 0, updated_turns |-> 0, deleted_turns |-> 0]

NoLast == [op |-> "init",
           target_id |-> NoId, target_processed |-> FALSE, success |-> FALSE,
           llm_outcome |-> None, rule_ran |-> FALSE, hot_appended |-> FALSE,
           reason |-> None, action |-> None,
           tavern_history |-> <<>>, sync |-> NoSync,
           plan |-> EmptyPlan, committed |-> FALSE, edge |-> <<>>,
           session |-> None, created |-> FALSE, keep_character_data |-> FALSE,
           was_dirty |-> FALSE, saved |-> FALSE, write_ok |-> TRUE,
           node_id |-> None, kwargs |-> <<>>, removed |-> 0,
           max_context_length |-> 0, user_input |-> "", enhanced_context |-> "",
           character_name |-> None, status_code |-> 200, raised |-> None]

\* threads that share one DelayedUpdateManager
Threads == {"t1", "t2"}
IdleCall == [pc |-> "idle", user_input |-> "", llm_response |-> "",
             turn |-> ConversationTurn(NoId, NoSeq, "", ""),
             old_turn_id |-> NoId,
             target |-> ConversationTurn(NoId, NoSeq, "", ""),
             mutated |-> FALSE]

\* ------------------------------------------------------------------ Init
InitAt(configs, paths, seeds) ==
    /\ \E c \in configs : window_size = c[1] /\ processing_delay = c[2]
    /\ graph_save_path \in paths
    /\ hash_seed \in seeds
    /\ clock = 0
    /\ syncs_done = 0
    /\ state_table = <<>>
    /\ grag_agent \in BOOLEAN
    /\ memory \in BOOLEAN
    /\ conversations = <<>>
    /\ turn_id_map = {}
    /\ sequence_counter = 0
    /\ uuid_counter = 0
    /\ update_stats = [total_updates_attempted |-> 0, successful_updates |-> 0,
                       failed_updates |-> 0, skipped_updates |-> 0]
    /\ hot_memory = <<>>
    /\ graph_nodes = {}
    /\ graph_attrs = <<>>
    /\ graph_edges = {}
    /\ data_changed = FALSE
    /\ state_snapshots = <<>>
    /\ conflict_stats = [total_syncs |-> 0, conflicts_detected |-> 0,
                         conflicts_resolved |-> 0, out_of_window_ignores |-> 0]
    /\ direct_calls = 0
    /\ edits_done = 0
    /\ last = NoLast
    /\ post_seqs = <<>>
    /\ posts_only = TRUE
    /\ commits_ok = TRUE
    /\ edit_scn = "start"
    /\ entities_json = NoFile
    /\ graph_files = <<>>
    /\ storage = [character_mapping |-> <<>>, key_order |-> <<>>,
                  active_sessions |-> <<>>]
    /\ character_dirs = <<>>
    /\ sessions = <<>>
    /\ sliding_window_managers = <<>>
    /\ conflict_resolvers = <<>>
    /\ session_ops = 0
    /\ reset_ids = {}
    /\ calls = [th \in Threads |-> IdleCall]

\* a memory without a graph file; no list attribute is merged, so that the
\* seed is of no consequence
InitWith(configs) == InitAt(configs, {NoPath}, {0})

Init == InitWith(SmallConfigs)
\* the session the server creates: default window, always with a memory
InitDefault == InitWith(DefaultConfigs) /\ memory

SetWindow(w) ==
    /\ conversations' = w.conversations
    /\ turn_id_map' = w.turn_id_map
    /\ sequence_counter' = w.sequence_counter
    /\ uuid_counter' = w.uuid_counter

\* ------------------------------- DelayedUpdateManager.process_new_conversation
process_new_conversation(user_input, llm_response, outcome, operations) ==
    /\ CanAddTurn(Window)
    /\ LET w1 == add_turn(Window, user_input, llm_response)
           new_turn == NewestTurn(w1)
           target == get_processing_target(w1)
           res == IF target # NoId
                  THEN process_target_turn(Graph, hot_memory, memory, grag_agent,
                                           get_turn_by_id(w1, target), outcome,
                                           operations)
                  ELSE [success |-> FALSE, method |-> None, graph |-> Graph,
                        hot_memory |-> hot_memory, rule_ran |-> FALSE,
                        data_changed |-> FALSE]
           w2 == IF target # NoId THEN mark_processed(w1, target, res.success) ELSE w1
       IN /\ SetWindow(w2)
          /\ graph_nodes' = res.graph.nodes
          /\ graph_attrs' = res.graph.attrs
          /\ graph_edges' = res.graph.edges
          /\ hot_memory' = res.hot_memory
          /\ data_changed' = (data_changed \/ res.data_changed)
          /\ update_stats' =
                IF target = NoId THEN update_stats
                ELSE [update_stats EXCEPT
                        !.total_updates_attempted = @ + 1,
                        !.successful_updates = IF res.success THEN @ + 1 ELSE @,
                        !.failed_updates = IF res.success THEN @ ELSE @ + 1]
          /\ last' = [NoLast EXCEPT
                        !.op = "process_new_conversation",
                        !.target_id = target,
                        !.target_processed = (target # NoId),
                        !.success = res.success,
                        !.llm_outcome = IF target # NoId /\ UsesAgent THEN outcome ELSE None,
                        !.rule_ran = res.rule_ran,
                        !.hot_appended = (res.hot_memory # hot_memory),
                        !.plan = IF target # NoId /\ UsesAgent /\ outcome = "ok"
                                 THEN convert_to_execution_format(operations)
                                 ELSE EmptyPlan,
                        !.committed = (target # NoId /\ res.success)]
          /\ post_seqs' = Append(post_seqs, new_turn.sequence)
          /\ commits_ok' = (commits_ok /\ (target = NoId \/ res.success))
          /\ edit_scn' = CASE edit_scn = "start" -> "T1"
                           [] edit_scn = "T1" -> "T2"
                           [] edit_scn = "edited" -> "T3"
                           [] OTHER -> "off"
    /\ UNCHANGED <<cfgVars, clock, syncs_done, state_table, calls, fileVars, registryVars, state_snapshots, conflict_stats, direct_calls, edits_done,
                   posts_only>>

\* the environment's part of a commit: only consulted when the agent runs
Answers == IF UsesAgent
           THEN {<<"ok", a>> : a \in Analyses}
                \cup {<<"error", NoOperations>>, <<"exception", NoOperations>>}
           ELSE {<<None, NoOperations>>}

PostStep ==
    \E a \in Answers :
        process_new_conversation("u", "a", a[1], a[2])

\* -------------------- DelayedUpdateManager.handle_conversation_modification
\* a variant of the edit handler that updates the oldest turn when the
\* addressed id is not in the window
dm_handle_conversation_modification_oldest(w, turn_id, user_input, llm_response) ==
    IF is_in_window(w, turn_id)
    THEN [window |-> update_turn(w, turn_id, user_input, llm_response),
          success |-> TRUE, reason |-> None, action |-> "updated"]
    ELSE IF w.conversations = <<>>
    THEN [window |-> w, success |-> TRUE, reason |-> "out_of_window", action |-> "ignored"]
    ELSE [window |-> [w EXCEPT !.conversations[1].version = @ + 1,
                               !.conversations[1].grag_processed = FALSE],
          success |-> TRUE, reason |-> None, action |-> "updated"]

\* the window after the edit and the dictionary the method returns
dm_handle_conversation_modification(w, turn_id, user_input, llm_response) ==
    IF ~is_in_window(w, turn_id)
    THEN [window |-> w, success |-> TRUE, reason |-> "out_of_window", action |-> "ignored"]
    ELSE [window |-> update_turn(w, turn_id, user_input, llm_response),
          success |-> TRUE, reason |-> None, action |-> "updated"]

\* an edit is offered for every turn in the window and for one id outside it:
\* the first turn's id once it is evicted, before that an id the server never issued
OutsideId == IF uuid_counter >= 1 /\ 1 \notin turn_id_map THEN 1 ELSE ForeignId
EditIds == turn_id_map \cup {OutsideId}
EditTexts == {<<"v", None>>}     \* (user_input, llm_response) of an edit; None keeps the field

EditAllowed(turn_id) == turn_id \in turn_id_map => edits_done < MaxEdits

EditsAfter(turn_id, modification_type) ==
    IF turn_id \in turn_id_map /\ modification_type \in {"edit", "regenerate"}
    THEN edits_done + 1 ELSE edits_done

\* the scenario advances when the edit hits the first turn right after the second post
EditScn(turn_id, done) ==
    IF edit_scn = "T2" /\ done /\ turn_id \in turn_id_map
       /\ get_turn_by_id(Window, turn_id).sequence = 1
    THEN "edited" ELSE "off"

handle_conversation_modification(turn_id, user_input, llm_response) ==
    /\ LET res == dm_handle_conversation_modification(Window, turn_id, user_input, llm_response)
       IN /\ SetWindow(res.window)
          /\ last' = [NoLast EXCEPT !.op = "handle_conversation_modification",
                                    !.success = res.success,
                                    !.reason = res.reason,
                                    !.action = res.action]
          /\ edit_scn' = EditScn(turn_id, res.action = "updated")
    /\ edits_done' = EditsAfter(turn_id, "edit")
    /\ posts_only' = FALSE
    /\ UNCHANGED <<cfgVars, clock, syncs_done, state_table, calls, fileVars, registryVars, memVars, update_stats, state_snapshots, conflict_stats,
                   direct_calls, post_seqs, commits_ok>>

\* SlidingWindowManager.update_turn called on its own; the result is in last.success
window_update_turn(turn_id, user_input, llm_response) ==
    /\ SetWindow(update_turn(Window, turn_id, user_input, llm_response))
    /\ last' = [NoLast EXCEPT !.op = "update_turn",
                              !.success = (turn_id \in turn_id_map)]
    /\ edits_done' = EditsAfter(turn_id, "edit")
    /\ edit_scn' = "off"
    /\ posts_only' = FALSE
    /\ UNCHANGED <<cfgVars, clock, syncs_done, state_table, calls, fileVars, registryVars, memVars, update_stats, state_snapshots,
                   conflict_stats, direct_calls, post_seqs, commits_ok>>

\* ------------------------------------------------------ ConflictResolver
\* sha256(f"{user_input}||{llm_response}")[:16], taken to be collision free
calculate_content_hash(user_input, llm_response) ==
    user_input \o "||" \o llm_response

ConversationState(turn) ==
    [turn_id |-> turn.turn_id, sequence |-> turn.sequence,
     content_hash |-> calculate_content_hash(turn.user_input, turn.llm_response),
     timestamp |-> turn.timestamp,
     version |-> turn.version, grag_processed |-> turn.grag_processed]

has_changed(snapshot, user_input, llm_response) ==
    snapshot.content_hash # calculate_content_hash(user_input, llm_response)

create_state_snapshot(snapshots, turn) ==
    (turn.turn_id :> ConversationState(turn)) @@ snapshots

DropSnapshot(snapshots, turn_id) ==
    [k \in (DOMAIN snapshots) \ {turn_id} |-> snapshots[k]]

\* modification types offered: an edit, a delete and a type the resolver does not know
OfferedModificationTypes == {"edit", "delete", "rename"}

\* ConflictResolver.handle_conversation_modification with _handle_conversation_deletion
cr_handle_conversation_modification(turn_id, modification_type, user_input, llm_response) ==
    /\ IF ~is_in_window(Window, turn_id)
       THEN /\ UNCHANGED <<winVars, state_snapshots>>
            /\ last' = [NoLast EXCEPT !.op = "cr_handle_conversation_modification",
                                      !.success = TRUE,
                                      !.reason = "out_of_window", !.action = "ignored"]
            /\ edit_scn' = "off"
       ELSE IF modification_type \in {"edit", "regenerate"}
       THEN LET res == dm_handle_conversation_modification(Window, turn_id,
                                                           user_input, llm_response)
            IN /\ SetWindow(res.window)
               /\ state_snapshots' =
                     IF res.success /\ turn_id \in res.window.turn_id_map
                     THEN create_state_snapshot(state_snapshots,
                                                get_turn_by_id(res.window, turn_id))
                     ELSE state_snapshots
               /\ last' = [NoLast EXCEPT !.op = "cr_handle_conversation_modification",
                                         !.success = res.success,
                                         !.reason = res.reason, !.action = res.action]
               /\ edit_scn' = EditScn(turn_id, res.action = "updated")
       ELSE IF modification_type = "delete"
       THEN /\ UNCHANGED winVars
            /\ state_snapshots' = DropSnapshot(state_snapshots, turn_id)
            /\ last' = [NoLast EXCEPT !.op = "cr_handle_conversation_modification",
                                      !.success = TRUE,
                                      !.action = "marked_deleted"]
            /\ edit_scn' = "off"
       ELSE /\ UNCHANGED <<winVars, state_snapshots>>
            /\ last' = [NoLast EXCEPT !.op = "cr_handle_conversation_modification",
                                      !.success = FALSE,
                                      !.reason = "unknown_modification_type"]
            /\ edit_scn' = "off"
    /\ edits_done' = EditsAfter(turn_id, modification_type)
    /\ posts_only' = FALSE
    /\ UNCHANGED <<cfgVars, clock, syncs_done, state_table, calls, fileVars, registryVars, memVars, update_stats, conflict_stats,
                   direct_calls, post_seqs, commits_ok>>

\* str.strip() on the texts in use: a blank text becomes empty
strip(text) == IF text \in BlankTexts THEN "" ELSE text

\* _should_add_turn_to_window; the timestamp is absent (None), within the last
\* 24 hours ("recent"), older ("old") or not parsable ("garbled", which only warns)
should_add_turn_to_window(tavern_turn) ==
    IF strip(tavern_turn.user) = "" /\ strip(tavern_turn.assistant) = "" THEN FALSE
    ELSE IF tavern_turn.timestamp = "old" THEN FALSE
    ELSE TRUE

NoConflict == [conflicts_detected |-> 0, conflicts_resolved |-> 0, updated_turns |-> 0]

\* a variant that treats a turn without snapshot as changed and counts only
\* the resolution
handle_existing_turn_conflict_unsnapshotted(st, existing_turn, new_user_input, new_llm_response) ==
    LET id == existing_turn.turn_id
        w1 == update_turn(st.window, id, new_user_input, new_llm_response)
    IN IF id \in DOMAIN st.snapshots
          /\ ~has_changed(st.snapshots[id], new_user_input, new_llm_response)
       THEN [window |-> st.window, snapshots |-> st.snapshots, result |-> NoConflict]
       ELSE [window |-> w1,
             snapshots |-> create_state_snapshot(st.snapshots, get_turn_by_id(w1, id)),
             result |-> [conflicts_detected |-> IF id \in DOMAIN st.snapshots THEN 1 ELSE 0,
                         conflicts_resolved |-> 1, updated_turns |-> 1]]

\* _handle_existing_turn_conflict on state st = [window, snapshots]
handle_existing_turn_conflict(st, existing_turn, new_user_input, new_llm_response) ==
    LET id == existing_turn.turn_id
    IN IF id \in DOMAIN st.snapshots
          /\ has_changed(st.snapshots[id], new_user_input, new_llm_response)
       THEN LET success == id \in st.window.turn_id_map
                w1 == update_turn(st.window, id, new_user_input, new_llm_response)
            IN IF success
               THEN [window |-> w1,
                     snapshots |-> create_state_snapshot(st.snapshots, get_turn_by_id(w1, id)),
                     result |-> [conflicts_detected |-> 1, conflicts_resolved |-> 1,
                                 updated_turns |-> 1]]
               ELSE [window |-> w1, snapshots |-> st.snapshots,
                     result |-> [conflicts_detected |-> 1, conflicts_resolved |-> 0,
                                 updated_turns |-> 0]]
       ELSE [window |-> st.window, snapshots |-> st.snapshots, result |-> NoConflict]

NoTurnResult == [conflicts_detected |-> 0, conflicts_resolved |-> 0, out_of_window |-> 0,
                 new_turns |-> 0, updated_turns |-> 0]

\* _process_tavern_turn after the window check: a record without id is skipped,
\* a known id goes to the conflict check, an unknown one may be appended
process_identified_turn(st, tavern_turn) ==
    IF tavern_turn.id = NoId
    THEN [window |-> st.window, snapshots |-> st.snapshots, result |-> NoTurnResult]
    ELSE IF tavern_turn.id \in st.window.turn_id_map
    THEN LET c == handle_existing_turn_conflict(st, get_turn_by_id(st.window, tavern_turn.id),
                                                tavern_turn.user, tavern_turn.assistant)
         IN [window |-> c.window, snapshots |-> c.snapshots,
             result |-> [NoTurnResult EXCEPT
                            !.conflicts_detected = c.result.conflicts_detected,
                            !.conflicts_resolved = c.result.conflicts_resolved,
                            !.updated_turns = c.result.updated_turns]]
    ELSE IF should_add_turn_to_window(tavern_turn)
    THEN LET w1 == add_turn(st.window, tavern_turn.user, tavern_turn.assistant)
         IN [window |-> w1,
             snapshots |-> create_state_snapshot(st.snapshots, NewestTurn(w1)),
             result |-> [NoTurnResult EXCEPT !.new_turns = 1]]
    ELSE [window |-> st.window, snapshots |-> st.snapshots, result |-> NoTurnResult]

\* a variant without the window check on the record's sequence
process_tavern_turn_unchecked(st, tavern_turn, window_sequences) ==
    process_identified_turn(st, tavern_turn)

\* `if sequence`: None and the number 0 are both false
sequence_is_true(sequence) == sequence # NoSeq /\ sequence # 0

\* _process_tavern_turn; window_sequences was taken before the first record
process_tavern_turn(st, tavern_turn, window_sequences) ==
    IF sequence_is_true(tavern_turn.sequence)
       /\ tavern_turn.sequence \notin window_sequences
    THEN [window |-> st.window, snapshots |-> st.snapshots,
          result |-> [NoTurnResult EXCEPT !.out_of_window = 1]]
    ELSE process_identified_turn(st, tavern_turn)

\* the loop of sync_conversation_state over tavern_history, accumulating sync_results
RECURSIVE SyncLoop(_, _, _, _)
SyncLoop(st, sync_results, tavern_history, window_sequences) ==
    IF tavern_history = <<>>
    THEN [window |-> st.window, snapshots |-> st.snapshots, sync_results |-> sync_results]
    ELSE LET r == process_tavern_turn(st, Head(tavern_history), window_sequences)
         IN SyncLoop([window |-> r.window, snapshots |-> r.snapshots],
                     [sync_results EXCEPT
                        !.conflicts_detected = @ + r.result.conflicts_detected,
                        !.conflicts_resolved = @ + r.result.conflicts_resolved,
                        !.out_of_window = @ + r.result.out_of_window,
                        !.new_turns = @ + r.result.new_turns,
                        !.updated_turns = @ + r.result.updated_turns],
                     Tail(tavern_history), window_sequences)

\* _check_for_deleted_turns: window turns whose id the host no longer lists
check_for_deleted_turns(w, tavern_history) ==
    LET tavern_ids == {tavern_history[i].id : i \in 1..Len(tavern_history)} \ {NoId}
    IN Cardinality({i \in 1..Len(w.conversations) :
                        w.conversations[i].turn_id \notin tavern_ids})

WindowSequences(w) == {w.conversations[i].sequence : i \in 1..Len(w.conversations)}

\* sync_conversation_state as a function of the state before the call
sync_result(w, snapshots, tavern_history) ==
    LET loop == SyncLoop([window |-> w, snapshots |-> snapshots], NoSync,
                         tavern_history, WindowSequences(w))
    IN [window |-> loop.window, snapshots |-> loop.snapshots,
        sync_results |-> [loop.sync_results EXCEPT
                            !.deleted_turns = check_for_deleted_turns(loop.window,
                                                                      tavern_history),
                            !.synced_turns = Len(tavern_history)]]

\* ------------------------------- ConflictResolver.sync_conversation_state
sync_conversation_state(tavern_history) ==
    /\ LET res == sync_result(Window, state_snapshots, tavern_history)
       IN /\ res.window.sequence_counter <= TurnLimit(Window)
          /\ SetWindow(res.window)
          /\ state_snapshots' = res.snapshots
          /\ conflict_stats' =
                [conflict_stats EXCEPT
                    !.total_syncs = @ + 1,
                    !.conflicts_detected = @ + res.sync_results.conflicts_detected,
                    !.conflicts_resolved = @ + res.sync_results.conflicts_resolved,
                    !.out_of_window_ignores = @ + res.sync_results.out_of_window]
          /\ last' = [NoLast EXCEPT !.op = "sync_conversation_state",
                                    !.tavern_history = tavern_history,
                                    !.sync = res.sync_results]
    /\ syncs_done' = syncs_done + 1
    /\ posts_only' = FALSE
    /\ edit_scn' = "off"
    /\ UNCHANGED <<cfgVars, clock, state_table, calls, fileVars, registryVars, memVars, update_stats, direct_calls, edits_done,
                   post_seqs, commits_ok>>

\* ConflictResolver.reset_stats: every counter, total_syncs included, is zero
\* afterwards
reset_stats ==
    /\ conflict_stats' = [total_syncs |-> 0, conflicts_detected |-> 0,
                          conflicts_resolved |-> 0, out_of_window_ignores |-> 0]
    /\ last' = [NoLast EXCEPT !.op = "reset_stats"]
    /\ posts_only' = FALSE
    /\ edit_scn' = "off"
    /\ UNCHANGED <<cfgVars, clock, syncs_done, state_table, calls, fileVars, registryVars, winVars, memVars, update_stats, state_snapshots,
                   direct_calls, edits_done, post_seqs, commits_ok>>

\* snapshot.timestamp.timestamp() < cutoff_time, in whole hours: more hours
\* than max_age_hours lie between the snapshot's timestamp and the clock
expired(snapshot, max_age_hours) == clock - snapshot.timestamp > max_age_hours

\* the whole hours between the two are exactly max_age_hours: the comparison
\* is decided by the fraction of an hour that passed since the turn was stamped
at_cutoff(snapshot, max_age_hours) == clock - snapshot.timestamp = max_age_hours

\* ConflictResolver.cleanup_old_snapshots: each snapshot whose own timestamp
\* lies before now - max_age_hours is dropped, the others stay; of the
\* snapshots at the cutoff, those of kept_at_cutoff stay
cleanup_old_snapshots(max_age_hours, kept_at_cutoff) ==
    /\ \A turn_id \in kept_at_cutoff :
          /\ turn_id \in DOMAIN state_snapshots
          /\ at_cutoff(state_snapshots[turn_id], max_age_hours)
    /\ LET to_remove == {turn_id \in DOMAIN state_snapshots :
                            \/ expired(state_snapshots[turn_id], max_age_hours)
                            \/ /\ at_cutoff(state_snapshots[turn_id], max_age_hours)
                               /\ turn_id \notin kept_at_cutoff}
       IN state_snapshots' = [turn_id \in (DOMAIN state_snapshots) \ to_remove
                                 |-> state_snapshots[turn_id]]
    /\ last' = [NoLast EXCEPT !.op = "cleanup_old_snapshots"]
    /\ posts_only' = FALSE
    /\ edit_scn' = "off"
    /\ UNCHANGED <<cfgVars, clock, syncs_done, state_table, calls, fileVars, registryVars, winVars, memVars, update_stats, conflict_stats,
                   direct_calls, edits_done, post_seqs, commits_ok>>

\* DelayedUpdateManager.reset_stats
dm_reset_stats ==
    /\ update_stats' = [total_updates_attempted |-> 0, successful_updates |-> 0,
                        failed_updates |-> 0, skipped_updates |-> 0]
    /\ last' = [NoLast EXCEPT !.op = "dm_reset_stats"]
    /\ posts_only' = FALSE
    /\ edit_scn' = "off"
    /\ UNCHANGED <<cfgVars, clock, syncs_done, state_table, calls, fileVars, registryVars, winVars, memVars, state_snapshots, conflict_stats,
                   direct_calls, edits_done, post_seqs, commits_ok>>

\* SlidingWindowManager.clear_window: the turns and the index go, numbering
\* starts again at 1; ids already drawn are not drawn again
clear_window ==
    /\ conversations' = <<>>
    /\ turn_id_map' = {}
    /\ sequence_counter' = 0
    /\ last' = [NoLast EXCEPT !.op = "clear_window"]
    /\ posts_only' = FALSE
    /\ edit_scn' = "off"
    /\ UNCHANGED <<cfgVars, clock, syncs_done, state_table, calls, fileVars, registryVars, memVars, uuid_counter, update_stats,
                   state_snapshots, conflict_stats, direct_calls, edits_done, post_seqs,
                   commits_ok>>

\* records the host can deliver: {"id", "sequence", "user", "assistant", "timestamp"}
TavernTurn(id, seq, u, r, ts) ==
    [id |-> id, sequence |-> seq, user |-> u, assistant |-> r, timestamp |-> ts]

TavernRecords ==
    {TavernTurn(2, NoSeq, "u", "b", None),          \* second turn, reply changed
     TavernTurn(1, 1, "u", "b", None),              \* first turn edited, sequence given
     TavernTurn(1, NoSeq, "u", "b", None),          \* first turn edited, no sequence
     TavernTurn(ForeignId, NoSeq, "u", "a", None),  \* a turn the server has not seen
     TavernTurn(ForeignId, NoSeq, "u", "a", "old"), \* the same, older than 24 hours
     TavernTurn(ForeignId, NoSeq, "", " ", None)}   \* the same, blank content

\* every single record, and a changed second turn followed by an unseen turn
TavernHistories ==
    {<<a>> : a \in TavernRecords}
        \cup {<<TavernTurn(2, NoSeq, "u", "b", None),
                TavernTurn(ForeignId, NoSeq, "u", "a", None)>>}

\* records that give a sequence: 0, the sequence of a turn under an id the
\* server never issued, under no id or under the id of another turn, and a
\* sequence that was never given out
NumberedRecords ==
    {TavernTurn(1, 0, "u", "b", None),              \* first turn edited, sequence 0
     TavernTurn(ForeignId, 0, "u", "a", None),      \* an unseen turn, sequence 0
     TavernTurn(ForeignId, 1, "u", "a", None),      \* an unseen turn under the first sequence
     TavernTurn(NoId, 2, "u", "b", None),           \* the second sequence without id
     TavernTurn(1, 2, "u", "b", None),              \* first turn under the second sequence
     TavernTurn(2, 7, "u", "b", None)}              \* second turn under a sequence never given

\* the lists above, every numbered record on its own, and lists that mix the
\* records of turns inside and outside the window
NumberedHistories ==
    TavernHistories
        \cup {<<a>> : a \in NumberedRecords}
        \cup {<<TavernTurn(1, 1, "u", "b", None),
                TavernTurn(ForeignId, NoSeq, "u", "a", None),
                TavernTurn(2, 2, "u", "b", None)>>,
              <<TavernTurn(ForeignId, 1, "u", "a", None),
                TavernTurn(1, 1, "u", "b", None)>>}

\* ------------------------------ GameEngine.extract_updates_from_response
\* RPGTextProcessor.extract_rpg_entities_and_relations: none of the texts in
\* use contains a phrase of the pattern taxonomy, so the result is empty
extract_rpg_entities_and_relations(text) == EmptyPlan

\* ValidationLayer.validate is a placeholder that returns its input
validate(updates, g) == updates

\* the node deletions of _process_deletion_events: "lost" removes the node,
\* "death" and every other deletion type mark it
RECURSIVE ProcessNodeDeletions(_, _)
ProcessNodeDeletions(g, deletions) ==
    IF deletions = <<>> THEN g
    ELSE LET node_deletion == Head(deletions)
         IN ProcessNodeDeletions(
                IF node_deletion.deletion_type = "lost"
                THEN kg_delete_node(g, node_deletion.node_id)
                ELSE mark_node_as_deleted(g, node_deletion.node_id, node_deletion.reason),
                Tail(deletions))

\* one edge deletion: "*" as source or relationship deletes every matching edge
ProcessEdgeDeletion(g, edge_deletion) ==
    LET source == edge_deletion.source
        target == edge_deletion.target
        relationship == edge_deletion.relationship
    IN IF source = "*" \/ relationship = "*"
       THEN [g EXCEPT !.edges =
                {e \in @ : ~(/\ (source = "*" \/ e[1] = source)
                             /\ (target = "*" \/ e[2] = target)
                             /\ (relationship = "*" \/ e[3] = relationship))}]
       ELSE kg_delete_edge(g, source, target, relationship)

RECURSIVE ProcessEdgeDeletions(_, _)
ProcessEdgeDeletions(g, deletions) ==
    IF deletions = <<>> THEN g
    ELSE ProcessEdgeDeletions(ProcessEdgeDeletion(g, Head(deletions)), Tail(deletions))

\* _process_deletion_events: node deletions, then edge deletions
process_deletion_events(g, validated_updates) ==
    ProcessEdgeDeletions(ProcessNodeDeletions(g, validated_updates.nodes_to_delete),
                         validated_updates.edges_to_delete)

\* the node loop of _apply_validated_updates: a missing node is created with
\* node_update.get("type", "unknown"), or as a "character" when that is
\* unknown and a location is set; an existing node keeps its stored type
RECURSIVE EngineNodeUpdates(_, _)
EngineNodeUpdates(g, nodes) ==
    IF nodes = <<>> THEN g
    ELSE LET node_update == Head(nodes)
             given_type == DictGet(node_update, "type", "unknown")
             node_type ==
                IF node_update.node_id \notin g.nodes
                THEN IF given_type = "unknown"
                        /\ "location" \in DOMAIN node_update.attributes
                     THEN "character"
                     ELSE given_type
                ELSE DictGet(g.attrs[node_update.node_id], "type", "unknown")
         IN EngineNodeUpdates(
                add_or_update_node_with_conflict_resolution(
                    g, node_update.node_id, node_type, node_update.attributes),
                Tail(nodes))

\* a variant that upserts the nodes before it processes the deletions
apply_validated_updates_upserts_first(g, validated_updates) ==
    ApplyEdgeAdds(process_deletion_events(
                      EngineNodeUpdates(g, validated_updates.nodes_to_update),
                      validated_updates),
                  validated_updates.edges_to_add)

\* _apply_validated_updates: deletions first, then nodes_to_update, then
\* edges_to_add; nodes_to_add is not read
apply_validated_updates(g, validated_updates) ==
    ApplyEdgeAdds(EngineNodeUpdates(process_deletion_events(g, validated_updates),
                                    validated_updates.nodes_to_update),
                  validated_updates.edges_to_add)

\* whether _apply_validated_updates reaches a facade mutator that sets
\* _data_changed: delete_node and delete_edge when they removed something,
\* add_or_update_node and add_edge on every call; mark_node_as_deleted never
RECURSIVE node_deletions_mark(_, _)
node_deletions_mark(g, deletions) ==
    IF deletions = <<>> THEN FALSE
    ELSE \/ /\ Head(deletions).deletion_type = "lost"
            /\ Head(deletions).node_id \in g.nodes
         \/ node_deletions_mark(ProcessNodeDeletions(g, <<Head(deletions)>>),
                                Tail(deletions))

validated_updates_mark(g, validated_updates) ==
    LET g1 == ProcessNodeDeletions(g, validated_updates.nodes_to_delete)
    IN \/ node_deletions_mark(g, validated_updates.nodes_to_delete)
       \/ ProcessEdgeDeletions(g1, validated_updates.edges_to_delete).edges # g1.edges
       \/ validated_updates.nodes_to_update # <<>>
       \/ validated_updates.edges_to_add # <<>>

extract_with_local_processor(g, llm_response) ==
    [graph |-> apply_validated_updates(g,
                  validate(extract_rpg_entities_and_relations(llm_response), g)),
     data_changed |-> validated_updates_mark(g,
                  validate(extract_rpg_entities_and_relations(llm_response), g)),
     rule_ran |-> TRUE]

\* _extract_with_agent: an error marker or an exception falls back to the rules
extract_with_agent(g, user_input, llm_response, outcome, operations) ==
    IF outcome = "ok"
    THEN LET execution_format == convert_to_execution_format(operations)
         IN [graph |-> apply_validated_updates(g, validate(execution_format, g)),
             data_changed |-> validated_updates_mark(g, validate(execution_format, g)),
             rule_ran |-> FALSE]
    ELSE extract_with_local_processor(g, llm_response)

\* the engine shares the session's agent with the DelayedUpdateManager;
\* _apply_validated_updates ends by writing the graph file when the memory
\* has a graph_save_path, whether or not the plan changed anything
extract_updates_from_response(llm_response, user_input, outcome, operations) ==
    /\ LET res == IF grag_agent
                  THEN extract_with_agent(Graph, user_input, llm_response, outcome,
                                          operations)
                  ELSE extract_with_local_processor(Graph, llm_response)
       IN /\ graph_nodes' = res.graph.nodes
          /\ graph_attrs' = res.graph.attrs
          /\ graph_edges' = res.graph.edges
          /\ data_changed' = (data_changed \/ res.data_changed)
          /\ graph_files' = IF graph_save_path # NoPath
                            THEN save_graph(graph_files, graph_save_path, res.graph)
                            ELSE graph_files
          /\ last' = [NoLast EXCEPT !.op = "extract_updates_from_response",
                                    !.llm_outcome = IF grag_agent THEN outcome ELSE None,
                                    !.rule_ran = res.rule_ran,
                                    !.plan = IF grag_agent /\ outcome = "ok"
                                             THEN convert_to_execution_format(operations)
                                             ELSE extract_rpg_entities_and_relations(llm_response),
                                    !.committed = memory]
    /\ direct_calls' = direct_calls + 1
    /\ posts_only' = FALSE
    /\ edit_scn' = "off"
    /\ UNCHANGED <<cfgVars, clock, syncs_done, state_table, calls, entities_json, storage, character_dirs,
                   registryVars, winVars, hot_memory, update_stats, state_snapshots,
                   conflict_stats, edits_done, post_seqs, commits_ok>>

\* ------------------------------------- KnowledgeGraph.get_subgraph_for_context
Successors(g, S) == {e[2] : e \in {x \in g.edges : x[1] \in S}}

\* a variant that looks one hop further than the radius
RECURSIVE ego_graph_beyond_radius(_, _, _)
ego_graph_beyond_radius(g, n, radius) ==
    IF radius < 0 THEN {n}
    ELSE LET inner == ego_graph_beyond_radius(g, n, radius - 1)
         IN inner \cup Successors(g, inner)

\* nx.ego_graph(G, n, radius) on a DiGraph: the nodes whose shortest-path
\* distance from n along edge direction is at most radius
RECURSIVE ego_graph(_, _, _)
ego_graph(g, n, radius) ==
    IF radius <= 0 THEN {n}
    ELSE LET inner == ego_graph(g, n, radius - 1)
         IN inner \cup Successors(g, inner)

\* get_subgraph_for_context: the subgraph induced by the seeds that are nodes
\* and by their ego graphs
get_subgraph_for_context(g, entity_ids, depth) ==
    LET relevant_nodes ==
            UNION {{entity_id} \cup ego_graph(g, entity_id, depth) :
                   entity_id \in entity_ids \cap g.nodes}
    IN [nodes |-> relevant_nodes,
        attrs |-> [n \in relevant_nodes |-> g.attrs[n]],
        edges |-> {e \in g.edges : e[1] \in relevant_nodes /\ e[2] \in relevant_nodes}]

\* ------------------------------------------------ GRAGMemory and the mirror
ExcludedKeys == {"type", "description", "created_time", "last_modified"}
EntityTypes == {"character", "location", "item", "event", "concept"}

\* the entity sync_entities_to_json writes for a node; time.time() is "set"
EntityOf(attrs) ==
    [type |-> DictGet(attrs, "type", "concept"),
     description |-> DictGet(attrs, "description", ""),
     created_time |-> DictGet(attrs, "created_time", "set"),
     last_modified |-> DictGet(attrs, "last_modified", "set"),
     attributes |-> [key \in DOMAIN attrs \ ExcludedKeys |-> attrs[key]]]

\* the file sync_entities_to_json writes for a graph
EntitiesFile(g) ==
    [exists |-> TRUE,
     entities |-> [n \in g.nodes |-> EntityOf(g.attrs[n])],
     relationships |-> g.edges]

\* the attributes _load_entities_from_json passes for an entity
LoadedAttributes(entity) ==
    entity.attributes
        @@ (IF entity.description # "" THEN [description |-> entity.description] ELSE <<>>)
        @@ [created_time |-> entity.created_time, last_modified |-> entity.last_modified]

RECURSIVE LoadEntities(_, _, _)
LoadEntities(g, entities, names) ==
    IF names = {} THEN g
    ELSE LET name == CHOOSE n \in names : TRUE
         IN LoadEntities(kg_add_or_update_node(g, name, entities[name].type,
                                               LoadedAttributes(entities[name])),
                         entities, names \ {name})

\* a relationship is added (graph.add_edge, past KnowledgeGraph.add_edge) only
\* when both of its nodes exist
RECURSIVE LoadRelationships(_, _)
LoadRelationships(g, relationships) ==
    IF relationships = {} THEN g
    ELSE LET rel == CHOOSE r \in relationships : TRUE
         IN LoadRelationships(
                IF rel[1] \in g.nodes /\ rel[2] \in g.nodes
                THEN [g EXCEPT !.edges =
                        {e \in @ : ~(e[1] = rel[1] /\ e[2] = rel[2])} \cup {rel}]
                ELSE g,
                relationships \ {rel})

\* _load_entities_from_json: nothing is loaded without a file or without entities
load_entities_from_json(g, file) ==
    IF ~file.exists \/ DOMAIN file.entities = {} THEN g
    ELSE LoadRelationships(LoadEntities(g, file.entities, DOMAIN file.entities),
                           file.relationships)

RECURSIVE RemoveNodes(_, _)
RemoveNodes(g, nodes) ==
    IF nodes = {} THEN g
    ELSE LET n == CHOOSE x \in nodes : TRUE
         IN RemoveNodes(kg_delete_node(g, n), nodes \ {n})

SetGraph(g) ==
    /\ graph_nodes' = g.nodes
    /\ graph_attrs' = g.attrs
    /\ graph_edges' = g.edges

\* GRAGMemory.add_edge
memory_add_edge(source, target, relationship) ==
    /\ SetGraph(kg_add_edge(Graph, source, target, relationship))
    /\ data_changed' = TRUE
    /\ last' = [NoLast EXCEPT !.op = "add_edge",
                              !.edge = <<source, target, relationship>>]
    /\ posts_only' = FALSE
    /\ edit_scn' = "off"
    /\ UNCHANGED <<cfgVars, clock, syncs_done, state_table, calls, fileVars, registryVars, winVars, hot_memory, update_stats,
                   state_snapshots, conflict_stats, direct_calls, edits_done,
                   post_seqs, commits_ok>>

\* GRAGMemory.add_or_update_node
memory_add_or_update_node(node_id, node_type, kwargs) ==
    /\ SetGraph(add_or_update_node_with_conflict_resolution(Graph, node_id, node_type,
                                                            kwargs))
    /\ data_changed' = TRUE
    /\ last' = [NoLast EXCEPT !.op = "add_or_update_node",
                              !.node_id = node_id, !.kwargs = kwargs]
    /\ posts_only' = FALSE
    /\ edit_scn' = "off"
    /\ UNCHANGED <<cfgVars, clock, syncs_done, state_table, calls, fileVars, registryVars, winVars, hot_memory, update_stats,
                   state_snapshots, conflict_stats, direct_calls, edits_done,
                   post_seqs, commits_ok>>

\* GRAGMemory.update_state: the entry of the key is replaced (its timestamp is
\* left out) and the memory is marked changed
update_state(key, value) ==
    /\ state_table' = (key :> value) @@ state_table
    /\ data_changed' = TRUE
    /\ last' = [NoLast EXCEPT !.op = "update_state"]
    /\ posts_only' = FALSE
    /\ edit_scn' = "off"
    /\ UNCHANGED <<cfgVars, clock, syncs_done, calls, fileVars, registryVars, winVars, hot_memory,
                   graph_nodes, graph_attrs, graph_edges, update_stats,
                   state_snapshots, conflict_stats, direct_calls, edits_done,
                   post_seqs, commits_ok>>

\* BasicMemory.get_state: None for a key that was never written
get_state(states, key) == DictGet(states, key, None)

\* KnowledgeGraph.cleanup_deleted_nodes: a node that carries the deletion
\* marker and its timestamp is removed (graph.remove_node, its edges with it)
\* when more than days_threshold whole days have passed since it was marked;
\* elapsed_days is the clock's part, the same for every marker
cleanup_deleted_nodes(g, days_threshold, elapsed_days) ==
    LET nodes_to_remove ==
            {n \in g.nodes : /\ DictGet(g.attrs[n], "_deleted", FALSE)
                             /\ "_deleted_timestamp" \in DOMAIN g.attrs[n]
                             /\ elapsed_days > days_threshold}
    IN RemoveNodes(g, nodes_to_remove)

\* GRAGMemory.cleanup_old_deleted_nodes: the flag _data_changed is not touched
cleanup_old_deleted_nodes(days_threshold, elapsed_days) ==
    /\ SetGraph(cleanup_deleted_nodes(Graph, days_threshold, elapsed_days))
    /\ last' = [NoLast EXCEPT
                  !.op = "cleanup_old_deleted_nodes",
                  !.removed = Cardinality(graph_nodes)
                                - Cardinality(cleanup_deleted_nodes(Graph, days_threshold,
                                                                    elapsed_days).nodes)]
    /\ posts_only' = FALSE
    /\ edit_scn' = "off"
    /\ UNCHANGED <<cfgVars, clock, syncs_done, state_table, calls, fileVars, registryVars, winVars,
                   hot_memory, data_changed, update_stats, state_snapshots,
                   conflict_stats, direct_calls, edits_done, post_seqs, commits_ok>>

\* GRAGMemory.sync_entities_to_json
sync_entities_to_json ==
    /\ entities_json' = EntitiesFile(Graph)
    /\ last' = [NoLast EXCEPT !.op = "sync_entities_to_json"]
    /\ posts_only' = FALSE
    /\ edit_scn' = "off"
    /\ UNCHANGED <<cfgVars, clock, syncs_done, state_table, calls, graph_files, storage, character_dirs, registryVars, winVars, memVars, update_stats,
                   state_snapshots, conflict_stats, direct_calls, edits_done,
                   post_seqs, commits_ok>>

\* GRAGMemory.reload_entities_from_json: entity-typed nodes are removed, then
\* the file is loaded
reload_entities_from_json ==
    /\ SetGraph(load_entities_from_json(
            RemoveNodes(Graph, {n \in graph_nodes :
                                 DictGet(graph_attrs[n], "type", None) \in EntityTypes}),
            entities_json))
    /\ last' = [NoLast EXCEPT !.op = "reload_entities_from_json"]
    /\ posts_only' = FALSE
    /\ edit_scn' = "off"
    /\ UNCHANGED <<cfgVars, clock, syncs_done, state_table, calls, fileVars, registryVars, winVars, hot_memory, data_changed,
                   update_stats,
                   state_snapshots, conflict_stats, direct_calls, edits_done,
                   post_seqs, commits_ok>>

\* GRAGMemory.clear_all: hot memory, state table and graph are emptied and the
\* empty graph is written to the file
clear_all ==
    /\ hot_memory' = <<>>
    /\ state_table' = <<>>
    /\ SetGraph(EmptyGraph)
    /\ entities_json' = EntitiesFile(EmptyGraph)
    /\ data_changed' = TRUE
    /\ last' = [NoLast EXCEPT !.op = "clear_all"]
    /\ posts_only' = FALSE
    /\ edit_scn' = "off"
    /\ UNCHANGED <<cfgVars, clock, syncs_done, calls, graph_files, storage, character_dirs, registryVars, winVars, update_stats,
                   state_snapshots, conflict_stats, direct_calls, edits_done,
                   post_seqs, commits_ok>>

\* ------------------------------------------------------- api_server sessions
SessionIds == {"s1", "s2", "test_1"}
\* the names /tavern/new_session and /tavern/character/{name} are called with:
\* "c" is part of every registered name, "c3" of none
CharacterNames == {"c1", "c2", "c", "c3"}
\* what datetime.now().strftime("%Y%m%d_%H%M%S") gives a request: two requests
\* can fall into the same second
Timestamps == {"20260101_000000", "20260101_000001"}
\* the character card each session id is initialized with
CardName(session_id) == IF session_id = "s1" THEN "c1" ELSE "c2"
\* the analysis each session's agent delivers: one node named after the session
SessionNode(session_id) == IF session_id = "s1" THEN "n1" ELSE "n2"
SessionOps(session_id) == <<UpdateNodeOp(SessionNode(session_id), NoAttributes)>>
SessionPlan(session_id) == convert_to_execution_format(SessionOps(session_id))

Range(f) == {f[x] : x \in DOMAIN f}

\* the directory names register_tavern_character tries: name, name_1, name_2, ...
DirName(base_dir_name, counter) ==
    IF counter = 0 THEN base_dir_name
    ELSE base_dir_name \o "_" \o ToString(counter)

\* `name in text` of two lower-case strings
RECURSIVE occurs_from(_, _, _)
occurs_from(text, name, i) ==
    IF i + Len(name) - 1 > Len(text) THEN FALSE
    ELSE SubSeq(text, i, i + Len(name) - 1) = name \/ occurs_from(text, name, i + 1)

\* register_tavern_character: the first directory name not among the mapped
\* ones; the mapping entry of the character is overwritten (a dict keeps the
\* position of a key that is assigned again) and the session is recorded
register_tavern_character(st, character_name, session_id) ==
    LET taken == Range(st.character_mapping)
        counter == CHOOSE k \in 0..Cardinality(taken) :
                      /\ DirName(character_name, k) \notin taken
                      /\ \A j \in 0..(k - 1) : DirName(character_name, j) \in taken
        local_dir_name == DirName(character_name, counter)
    IN [character_mapping |-> (character_name :> local_dir_name) @@ st.character_mapping,
        key_order |-> IF character_name \in DOMAIN st.character_mapping
                      THEN st.key_order
                      ELSE Append(st.key_order, character_name),
        active_sessions |->
            (session_id :> [character_mapping_key |-> character_name,
                            local_dir_name |-> local_dir_name]) @@ st.active_sessions]

\* register_tavern_character, the mkdir(exist_ok=True) calls: a directory
\* that is already there keeps what it holds
make_character_dir(dirs, local_dir_name) ==
    IF local_dir_name \in DOMAIN dirs THEN dirs ELSE (local_dir_name :> <<>>) @@ dirs

\* get_graph_file_path: one shared path in test mode, else the directory of
\* the character the session registered
get_graph_file_path(st, session_id, is_test) ==
    IF is_test THEN TestPath
    ELSE <<"tavern_characters", st.active_sessions[session_id].local_dir_name>>

\* whether nx.write_graphml finds the directory of the file: the test
\* directory is there from the start and is made again whenever it is
\* removed, a character directory is there until clear_character_data
directory_exists(dirs, file_path) ==
    /\ file_path # NoPath
    /\ file_path = TestPath \/ file_path[2] \in DOMAIN dirs

\* the lookup loop of create_new_session and delete_character: the first key
\* of character_mapping, in dict order, that contains the name
find_character_mapping_key(st, character_name) ==
    LET hits == {i \in 1..Len(st.key_order) :
                    occurs_from(st.key_order[i], character_name, 1)}
    IN IF hits = {} THEN None
       ELSE st.key_order[CHOOSE i \in hits : \A j \in hits : i <= j]

\* TavernStorageManager.create_new_session: ValueError for an unknown key; a
\* current directory that holds a file is copied to sessions/<timestamp>
\* (copytree raises FileExistsError when that directory is there already) and
\* emptied; the new session id is recorded
storage_create_new_session(st, dirs, files, character_mapping_key, session_timestamp) ==
    LET local_dir_name == st.character_mapping[character_mapping_key]
        current == <<"tavern_characters", local_dir_name>>
        backup == current \in DOMAIN files
        new_session_id == local_dir_name \o "_" \o session_timestamp
        same == [raised |-> None, storage |-> st, dirs |-> dirs, files |-> files]
    IN IF character_mapping_key \notin DOMAIN st.character_mapping
       THEN [same EXCEPT !.raised = "ValueError"]
       ELSE IF backup /\ session_timestamp \in DOMAIN dirs[local_dir_name]
       THEN [same EXCEPT !.raised = "FileExistsError"]
       ELSE [raised |-> None,
             storage |-> [st EXCEPT !.active_sessions =
                 (new_session_id :> [character_mapping_key |-> character_mapping_key,
                                     local_dir_name |-> local_dir_name]) @@ @],
             dirs |-> IF backup
                      THEN [dirs EXCEPT ![local_dir_name] =
                                (session_timestamp :> files[current]) @@ @]
                      ELSE dirs,
             files |-> IF backup
                       THEN [p \in DOMAIN files \ {current} |-> files[p]]
                       ELSE files]

\* TavernStorageManager.clear_test_data: the test directory is removed and
\* made again
storage_clear_test_data(files) == [p \in DOMAIN files \ {TestPath} |-> files[p]]

\* TavernStorageManager.clear_character_data: nothing for an unknown key; else
\* the directory of the character goes with all it holds, and so do the
\* mapping entry and the sessions recorded for the key
clear_character_data(st, dirs, files, character_mapping_key) ==
    IF character_mapping_key \notin DOMAIN st.character_mapping
    THEN [storage |-> st, dirs |-> dirs, files |-> files]
    ELSE LET local_dir_name == st.character_mapping[character_mapping_key]
             sessions_to_remove ==
                 {sid \in DOMAIN st.active_sessions :
                     st.active_sessions[sid].character_mapping_key = character_mapping_key}
         IN [storage |->
                 [character_mapping |->
                      [k \in DOMAIN st.character_mapping \ {character_mapping_key}
                          |-> st.character_mapping[k]],
                  key_order |-> SelectSeq(st.key_order,
                                          LAMBDA k : k # character_mapping_key),
                  active_sessions |->
                      [sid \in DOMAIN st.active_sessions \ sessions_to_remove
                          |-> st.active_sessions[sid]]],
             dirs |-> [d \in DOMAIN dirs \ {local_dir_name} |-> dirs[d]],
             files |-> [p \in DOMAIN files \ {<<"tavern_characters", local_dir_name>>}
                           |-> files[p]]]

\* the same node described with a list of aliases and two free texts, one of
\* which reads as a JSON list
NotesOps(session_id) ==
    <<UpdateNodeOp(SessionNode(session_id),
                   [aliases |-> ListOf(<<"a", "b">>),
                    note |-> Text("[\"a\", \"b\"]"),
                    label |-> Text("[a]")])>>
SessionNotes(session_id) == convert_to_execution_format(NotesOps(session_id))
SessionAnalyses(session_id) == {SessionOps(session_id), NotesOps(session_id)}

\* GRAGMemory.__init__: the graph file, then data/entities.json
NewMemory(files, file, save_path) ==
    [graph |-> load_entities_from_json(load_graph(EmptyGraph, files, save_path), file),
     hot_memory |-> <<>>,
     graph_save_path |-> save_path,
     data_changed |-> FALSE]

\* GRAGMemory.save_all_memory: nothing without a change; else the turn buffer
\* goes to a new timestamped file (never read back), the graph to
\* graph_save_path when one is set, and the flag is cleared
save_all_memory(m, files) ==
    IF ~m.data_changed
    THEN [memory |-> m, files |-> files, saved |-> FALSE]
    ELSE [memory |-> [m EXCEPT !.data_changed = FALSE],
          files |-> IF m.graph_save_path # NoPath
                    THEN save_graph(files, m.graph_save_path, m.graph)
                    ELSE files,
          saved |-> TRUE]

\* save_all_memory on the session's memory, the write succeeding
memory_save_all_memory ==
    /\ LET res == save_all_memory([graph |-> Graph, hot_memory |-> hot_memory,
                                   graph_save_path |-> graph_save_path,
                                   data_changed |-> data_changed], graph_files)
       IN /\ data_changed' = res.memory.data_changed
          /\ graph_files' = res.files
          /\ last' = [NoLast EXCEPT !.op = "save_all_memory",
                                    !.was_dirty = data_changed,
                                    !.saved = res.saved]
    /\ posts_only' = FALSE
    /\ edit_scn' = "off"
    /\ UNCHANGED <<cfgVars, clock, syncs_done, state_table, calls, entities_json, storage, character_dirs, registryVars, winVars, hot_memory,
                   graph_nodes, graph_attrs, graph_edges, update_stats,
                   state_snapshots, conflict_stats, direct_calls, edits_done,
                   post_seqs, commits_ok>>

\* save_graph with the outcome of nx.write_graphml: when the write raises, the
\* except clause logs the error and the method returns normally
save_graph_writing(files, file_path, g, write_ok) ==
    IF write_ok THEN save_graph(files, file_path, g) ELSE files

\* save_all_memory on a memory with a graph_save_path, the graph write
\* succeeding or failing
save_all_memory_writing(m, files, write_ok) ==
    IF ~m.data_changed
    THEN [memory |-> m, files |-> files, saved |-> FALSE]
    ELSE [memory |-> [m EXCEPT !.data_changed = FALSE],
          files |-> IF m.graph_save_path # NoPath
                    THEN save_graph_writing(files, m.graph_save_path, m.graph, write_ok)
                    ELSE files,
          saved |-> TRUE]

\* save_all_memory on the session's memory, the graph write succeeding or failing
memory_save_to_path(write_ok) ==
    /\ LET res == save_all_memory_writing([graph |-> Graph, hot_memory |-> hot_memory,
                                           graph_save_path |-> graph_save_path,
                                           data_changed |-> data_changed],
                                          graph_files, write_ok)
       IN /\ data_changed' = res.memory.data_changed
          /\ graph_files' = res.files
          /\ last' = [NoLast EXCEPT !.op = "save_all_memory",
                                    !.was_dirty = data_changed,
                                    !.saved = res.saved,
                                    !.write_ok = write_ok]
    /\ posts_only' = FALSE
    /\ edit_scn' = "off"
    /\ UNCHANGED <<cfgVars, clock, syncs_done, state_table, calls, entities_json, storage, character_dirs, registryVars, winVars, hot_memory,
                   graph_nodes, graph_attrs, graph_edges, update_stats,
                   state_snapshots, conflict_stats, direct_calls, edits_done,
                   post_seqs, commits_ok>>

\* RPGTextProcessor._generate_rpg_entity_id for a name without translation
generate_rpg_entity_id(name, entity_type) ==
    IF entity_type # "unknown" THEN entity_type \o "_" \o name ELSE name

\* GameEngine.initialize_from_tavern_data for a card whose texts hold no
\* pattern: the main character node is upserted
initialize_from_tavern_data(g, char_name) ==
    add_or_update_node_with_conflict_resolution(
        g, generate_rpg_entity_id(char_name, "character"), "character",
        [name |-> char_name, description |-> "main", personality |-> "",
         is_main_character |-> TRUE, source |-> "character_card"])

\* get_or_create_sliding_window_manager: DelayedUpdateManager.__init__ takes
\* (sliding_window, grag_agent, memory), so the call with window_size= and
\* processing_delay= raises TypeError and nothing is registered
get_or_create_sliding_window_manager(managers, session_id) ==
    IF session_id \in DOMAIN managers
    THEN [raised |-> FALSE, managers |-> managers]
    ELSE [raised |-> TRUE, managers |-> managers]

\* get_or_create_conflict_resolver: ValueError without a registered manager;
\* with one, ConflictResolver.__init__ takes (sliding_window, delayed_update)
\* and the call with the manager alone raises TypeError: nothing is registered
get_or_create_conflict_resolver(resolvers, managers, session_id) ==
    IF session_id \in DOMAIN resolvers
    THEN [raised |-> FALSE, resolvers |-> resolvers]
    ELSE IF session_id \notin DOMAIN managers
    THEN [raised |-> TRUE, resolvers |-> resolvers]
    ELSE [raised |-> TRUE, resolvers |-> resolvers]

SessionFrame ==
    /\ posts_only' = FALSE
    /\ edit_scn' = "off"
    /\ UNCHANGED <<cfgVars, clock, syncs_done, state_table, calls, winVars, memVars, update_stats, state_snapshots,
                   conflict_stats, direct_calls, edits_done, post_seqs, commits_ok>>

\* POST /initialize with session_config["sliding_window"] set
initialize_session(session_id, character_name, is_test) ==
    LET st == IF is_test THEN storage
              ELSE register_tavern_character(storage, character_name, session_id)
        dirs == IF is_test THEN character_dirs
                ELSE make_character_dir(character_dirs,
                                        st.active_sessions[session_id].local_dir_name)
        created == session_id \notin DOMAIN sessions
        engine == IF created
                  THEN NewMemory(graph_files, entities_json,
                                 get_graph_file_path(st, session_id, is_test))
                  ELSE sessions[session_id]
        g == initialize_from_tavern_data(engine.graph, character_name)
        made == get_or_create_sliding_window_manager(sliding_window_managers, session_id)
    IN /\ storage' = st
       /\ character_dirs' = dirs
       /\ sessions' = (session_id :> [engine EXCEPT !.graph = g,
                                                     !.data_changed = TRUE]) @@ sessions
       /\ graph_files' = save_graph_writing(graph_files, engine.graph_save_path, g,
                                            directory_exists(dirs, engine.graph_save_path))
       /\ sliding_window_managers' = made.managers
       /\ conflict_resolvers' =
             IF made.raised THEN conflict_resolvers
             ELSE get_or_create_conflict_resolver(conflict_resolvers, made.managers,
                                                  session_id).resolvers
       /\ session_ops' = session_ops + 1
       /\ last' = [NoLast EXCEPT !.op = "initialize_session", !.session = session_id,
                                 !.created = created]
       /\ UNCHANGED <<entities_json, reset_ids>>
       /\ SessionFrame

\* POST /update_memory: extract_updates_from_response, add_conversation,
\* save_all_memory
update_memory(session_id, outcome, operations) ==
    /\ session_id \in DOMAIN sessions
    /\ LET engine == sessions[session_id]
           g == extract_with_agent(engine.graph, "u", "a", outcome, operations).graph
           write_ok == directory_exists(character_dirs, engine.graph_save_path)
           \* _apply_validated_updates ends with save_graph
           files == save_graph_writing(graph_files, engine.graph_save_path, g, write_ok)
           \* add_conversation sets _data_changed
           m == [engine EXCEPT !.graph = g,
                               !.hot_memory = DequeAppend(@, <<"u", "a">>, HotMemorySize),
                               !.data_changed = TRUE]
           res == save_all_memory_writing(m, files, write_ok)
       IN /\ sessions' = [sessions EXCEPT ![session_id] = res.memory]
          /\ graph_files' = res.files
          /\ last' = [NoLast EXCEPT !.op = "update_memory", !.session = session_id,
                                    !.plan = convert_to_execution_format(operations),
                                    !.was_dirty = m.data_changed,
                                    !.saved = res.saved, !.write_ok = write_ok]
    /\ session_ops' = session_ops + 1
    /\ UNCHANGED <<entities_json, storage, character_dirs, sliding_window_managers, conflict_resolvers,
                   reset_ids>>
    /\ SessionFrame

\* sync_entities_to_json on the memory of one session
session_sync_entities_to_json(session_id) ==
    /\ session_id \in DOMAIN sessions
    /\ entities_json' = EntitiesFile(sessions[session_id].graph)
    /\ session_ops' = session_ops + 1
    /\ last' = [NoLast EXCEPT !.op = "sync_entities_to_json", !.session = session_id]
    /\ UNCHANGED <<graph_files, storage, character_dirs, sessions, sliding_window_managers,
                   conflict_resolvers, reset_ids>>
    /\ SessionFrame

\* clear_all on the memory of one session
session_clear_all(session_id) ==
    /\ session_id \in DOMAIN sessions
    /\ sessions' = [sessions EXCEPT ![session_id].graph = EmptyGraph,
                                    ![session_id].hot_memory = <<>>,
                                    ![session_id].data_changed = TRUE]
    /\ entities_json' = EntitiesFile(EmptyGraph)
    /\ session_ops' = session_ops + 1
    /\ last' = [NoLast EXCEPT !.op = "clear_all", !.session = session_id]
    /\ UNCHANGED <<graph_files, storage, character_dirs, sliding_window_managers, conflict_resolvers,
                   reset_ids>>
    /\ SessionFrame

\* POST /sessions/{session_id}/reset
reset_session(session_id, keep_character_data) ==
    /\ session_id \in DOMAIN sessions
    /\ IF keep_character_data
       THEN /\ sessions' = [sessions EXCEPT ![session_id].hot_memory = <<>>]
            /\ UNCHANGED reset_ids
       ELSE /\ sessions' = [sid \in DOMAIN sessions \ {session_id} |-> sessions[sid]]
            /\ reset_ids' = reset_ids \cup {session_id}
    /\ session_ops' = session_ops + 1
    /\ last' = [NoLast EXCEPT !.op = "reset_session", !.session = session_id,
                              !.keep_character_data = keep_character_data]
    /\ UNCHANGED <<fileVars, sliding_window_managers, conflict_resolvers>>
    /\ SessionFrame

\* POST /tavern/new_session: the HTTPException(404) raised inside the try for
\* a name without a matching key is caught by the handler's own
\* "except Exception" and answered with 500; a ValueError of the storage
\* manager is answered with 400, any other exception with 500
create_new_session(character_name, session_timestamp) ==
    /\ LET key == find_character_mapping_key(storage, character_name)
           res == storage_create_new_session(storage, character_dirs, graph_files,
                                             key, session_timestamp)
           found == key # None
       IN /\ storage' = IF found THEN res.storage ELSE storage
          /\ character_dirs' = IF found THEN res.dirs ELSE character_dirs
          /\ graph_files' = IF found THEN res.files ELSE graph_files
          /\ last' = [NoLast EXCEPT !.op = "create_new_session",
                                    !.character_name = character_name,
                                    !.status_code =
                                        IF ~found THEN 500
                                        ELSE IF res.raised = "ValueError" THEN 400
                                        ELSE IF res.raised # None THEN 500
                                        ELSE 200]
    /\ session_ops' = session_ops + 1
    /\ UNCHANGED <<entities_json, sessions, sliding_window_managers,
                   conflict_resolvers, reset_ids>>
    /\ SessionFrame

\* POST /ui_test/clear_data: the test directory is emptied and every engine
\* whose session id contains "test" leaves the registry
clear_test_data ==
    /\ graph_files' = storage_clear_test_data(graph_files)
    /\ LET test_sessions_to_remove ==
               {sid \in DOMAIN sessions : occurs_from(sid, "test", 1)}
       IN sessions' = [sid \in DOMAIN sessions \ test_sessions_to_remove
                          |-> sessions[sid]]
    /\ session_ops' = session_ops + 1
    /\ last' = [NoLast EXCEPT !.op = "clear_test_data"]
    /\ UNCHANGED <<entities_json, storage, character_dirs, sliding_window_managers,
                   conflict_resolvers, reset_ids>>
    /\ SessionFrame

\* DELETE /tavern/character/{character_name}: the engines are looked up in
\* active_sessions after clear_character_data has removed their entries; the
\* HTTPException(404) raised inside the try for a name without a matching key
\* is caught by the handler's own "except Exception" and answered with 500
delete_character(character_name) ==
    /\ LET key == find_character_mapping_key(storage, character_name)
           res == clear_character_data(storage, character_dirs, graph_files, key)
           found == key # None
           st == IF found THEN res.storage ELSE storage
           sessions_to_remove ==
               {sid \in DOMAIN sessions :
                   /\ found
                   /\ sid \in DOMAIN st.active_sessions
                   /\ st.active_sessions[sid].character_mapping_key = key}
       IN /\ storage' = st
          /\ character_dirs' = IF found THEN res.dirs ELSE character_dirs
          /\ graph_files' = IF found THEN res.files ELSE graph_files
          /\ sessions' = [sid \in DOMAIN sessions \ sessions_to_remove |-> sessions[sid]]
          /\ last' = [NoLast EXCEPT !.op = "delete_character",
                                    !.character_name = character_name,
                                    !.status_code = IF found THEN 200 ELSE 500]
    /\ session_ops' = session_ops + 1
    /\ UNCHANGED <<entities_json, sliding_window_managers, conflict_resolvers,
                   reset_ids>>
    /\ SessionFrame

\* ------------------------------------------------- POST /enhance_prompt
\* Python slices: seq[-n:] and s[:k], for every sign of n and k
tail_slice(seq, n) ==
    LET start == IF n > 0 THEN Max(Len(seq) - n, 0) ELSE Min(0 - n, Len(seq))
    IN SubSeq(seq, start + 1, Len(seq))
head_slice(s, k) ==
    IF k >= 0 THEN SubSeq(s, 1, Min(k, Len(s)))
    ELSE SubSeq(s, 1, Max(Len(s) + k, 0))

RECURSIVE join_lines(_)
join_lines(parts) ==
    IF parts = <<>> THEN ""
    ELSE IF Len(parts) = 1 THEN Head(parts)
    ELSE Head(parts) \o "\n" \o join_lines(Tail(parts))

\* BasicMemory.get_context: two lines per turn; the two-character label of the
\* user line is written "Us"
RECURSIVE context_parts(_)
context_parts(recent_conversations) ==
    IF recent_conversations = <<>> THEN <<>>
    ELSE <<"Us: " \o Head(recent_conversations)[1],
           "AI: " \o Head(recent_conversations)[2]>>
         \o context_parts(Tail(recent_conversations))
get_context(hot, recent_turns) == join_lines(context_parts(tail_slice(hot, recent_turns)))

\* KnowledgeGraph.to_text_representation for nodes that carry a type only and
\* edges that carry a relationship only; n1, n2, n3 is the insertion order
NodeOrder == <<"n1", "n2", "n3">>
RECURSIVE node_lines(_, _)
node_lines(g, order) ==
    IF order = <<>> THEN <<>>
    ELSE (IF Head(order) \in g.nodes
          THEN <<"- " \o Head(order) \o " (type: "
                 \o DictGet(g.attrs[Head(order)], "type", "N/A") \o ")">>
          ELSE <<>>)
         \o node_lines(g, Tail(order))
RECURSIVE edge_lines(_, _, _)
edge_lines(g, sources, targets) ==
    IF sources = <<>> THEN <<>>
    ELSE IF targets = <<>> THEN edge_lines(g, Tail(sources), NodeOrder)
    ELSE LET here == {e \in g.edges : e[1] = Head(sources) /\ e[2] = Head(targets)}
         IN (IF here # {}
             THEN LET e == CHOOSE x \in here : TRUE
                  IN <<"- " \o e[1] \o " -> " \o e[2] \o " (" \o e[3] \o ")">>
             ELSE <<>>)
            \o edge_lines(g, sources, Tail(targets))
to_text_representation(g) ==
    IF g.nodes = {} THEN "The knowledge graph is empty."
    ELSE join_lines(<<"[Nodes]">> \o node_lines(g, NodeOrder)
                    \o <<"\n[Relationships]">> \o edge_lines(g, NodeOrder, NodeOrder))

\* GRAGMemory.get_knowledge_graph_context
get_knowledge_graph_context(g, entity_ids) ==
    IF entity_ids = {} THEN "No entities provided for knowledge graph retrieval."
    ELSE to_text_representation(get_subgraph_for_context(g, entity_ids, 1))

\* the three sections of retrieve_context_for_prompt; a world time that is
\* missing or empty reads "Not set"
HistorySection(hot, recent_turns) ==
    "## Recent Conversation History\n" \o get_context(hot, recent_turns) \o "\n\n"
WorldStateSection(states) ==
    LET world_time == get_state(states, "world_time")
    IN "## [Current World State]\n- World Time: "
       \o (IF world_time # None /\ world_time # "" THEN world_time ELSE "Not set")
       \o "\n\n"
GraphSection(g, entities_in_query) ==
    "## Relevant Knowledge Graph\n" \o get_knowledge_graph_context(g, entities_in_query)
retrieve_context_for_prompt(g, hot, states, entities_in_query, recent_turns) ==
    HistorySection(hot, recent_turns) \o WorldStateSection(states)
        \o GraphSection(g, entities_in_query)

\* PerceptionModule.analyze, entity part: the nodes whose id occurs in the
\* lower-cased text (the nodes in use have no name and no aliases)
analyze(text, g) == {n \in g.nodes : occurs_from(text, n, 1)}

TruncationMarker == "\n[...context truncated...]"
recent_turns_for(max_context_length) ==
    IF max_context_length # 0 THEN Min(max_context_length \div 200, 5) ELSE 3
truncate_context(context, max_context_length) ==
    IF Len(context) > max_context_length
    THEN head_slice(context, max_context_length - 100) \o TruncationMarker
    ELSE context

\* POST /enhance_prompt on the session's memory
enhance_prompt(user_input, max_context_length) ==
    /\ LET entities == analyze(user_input, Graph)
           context == retrieve_context_for_prompt(Graph, hot_memory, state_table, entities,
                          recent_turns_for(max_context_length))
       IN last' = [NoLast EXCEPT !.op = "enhance_prompt",
                                 !.user_input = user_input,
                                 !.max_context_length = max_context_length,
                                 !.enhanced_context =
                                     truncate_context(context, max_context_length)]
    /\ posts_only' = FALSE
    /\ edit_scn' = "off"
    /\ UNCHANGED <<cfgVars, clock, syncs_done, state_table, calls, fileVars, registryVars, winVars, memVars, update_stats,
                   state_snapshots, conflict_stats, direct_calls, edits_done,
                   post_seqs, commits_ok>>

\* GRAGMemory.add_conversation
memory_add_conversation(user_input, ai_response) ==
    /\ hot_memory' = DequeAppend(hot_memory, <<user_input, ai_response>>, HotMemorySize)
    /\ data_changed' = TRUE
    /\ last' = [NoLast EXCEPT !.op = "add_conversation", !.user_input = user_input]
    /\ posts_only' = FALSE
    /\ edit_scn' = "off"
    /\ UNCHANGED <<cfgVars, clock, syncs_done, state_table, calls, fileVars, registryVars, winVars, graph_nodes, graph_attrs,
                   graph_edges, update_stats, state_snapshots, conflict_stats,
                   direct_calls, edits_done, post_seqs, commits_ok>>

\* requests: two user texts, one naming a node; context limits below 100,
\* between 100 and 200, and above
PromptInputs == {"hello", "n1 waves"}
ContextLimits == {0, 50, 150, 200, 400, 4000}
\* two nodes without attributes and one relation
PairOps == <<UpdateNodeOp("n1", NoAttributes), UpdateNodeOp("n2", NoAttributes),
             AddEdgeOp("n1", "n2", "knows")>>
PlanPair == convert_to_execution_format(PairOps)

\* ------------------------------- process_new_conversation, statement by statement
\* Neither DelayedUpdateManager nor SlidingWindowManager holds a lock, so a
\* second thread can run between any two statements that read or write the
\* window, the index or the statistics.  A statement is one step; statements
\* that touch only locals of the call are taken with the step before them.
\* self.sequence_counter += 1
add_turn_count(th, user_input, llm_response) ==
    /\ calls[th].pc = "idle"
    /\ CanAddTurn(Window)
    /\ sequence_counter' = sequence_counter + 1
    /\ calls' = [calls EXCEPT ![th] = [IdleCall EXCEPT !.pc = "counted",
                                                       !.user_input = user_input,
                                                       !.llm_response = llm_response]]
    /\ UNCHANGED <<conversations, turn_id_map, uuid_counter, last, post_seqs,
                   update_stats>>

\* turn = ConversationTurn(turn_id=str(uuid.uuid4()), sequence=self.sequence_counter, ...)
add_turn_build(th) ==
    /\ calls[th].pc = "counted"
    /\ uuid_counter' = uuid_counter + 1
    /\ calls' = [calls EXCEPT ![th].pc = "built",
                              ![th].turn = ConversationTurn(uuid_counter + 1,
                                               sequence_counter, calls[th].user_input,
                                               calls[th].llm_response)]
    /\ UNCHANGED <<conversations, turn_id_map, sequence_counter, last, post_seqs,
                   update_stats>>

\* the call ends with an exception: process_new_conversation catches none
\* outside _process_target_turn, so the caller gets no result
raise_from_call(th, error) ==
    /\ calls' = [calls EXCEPT ![th] = IdleCall]
    /\ last' = [NoLast EXCEPT !.op = "process_new_conversation", !.raised = error]

\* return result
return_result(th, target_processed, success) ==
    /\ calls' = [calls EXCEPT ![th] = IdleCall]
    /\ post_seqs' = Append(post_seqs, calls[th].turn.sequence)
    /\ last' = [NoLast EXCEPT !.op = "process_new_conversation",
                              !.target_id = calls[th].target.turn_id,
                              !.target_processed = target_processed,
                              !.success = success,
                              !.committed = success]

\* if len(self.conversations) >= self.window_size:
add_turn_check_full(th) ==
    /\ calls[th].pc = "built"
    /\ calls' = [calls EXCEPT ![th].pc = IF Len(conversations) >= window_size
                                         THEN "full" ELSE "evicted"]
    /\ UNCHANGED <<winVars, last, post_seqs, update_stats>>

\* old_turn = self.conversations[0]
add_turn_read_old(th) ==
    /\ calls[th].pc = "full"
    /\ calls' = [calls EXCEPT ![th].pc = "old_read",
                              ![th].old_turn_id = Head(conversations).turn_id]
    /\ UNCHANGED <<winVars, last, post_seqs, update_stats>>

\* if old_turn.turn_id in self.turn_id_map:
add_turn_test_old(th) ==
    /\ calls[th].pc = "old_read"
    /\ calls' = [calls EXCEPT ![th].pc = IF calls[th].old_turn_id \in turn_id_map
                                         THEN "deleting" ELSE "evicted"]
    /\ UNCHANGED <<winVars, last, post_seqs, update_stats>>

\* del self.turn_id_map[old_turn.turn_id]: KeyError when another thread has
\* deleted the entry since the test
add_turn_evict(th) ==
    /\ calls[th].pc = "deleting"
    /\ IF calls[th].old_turn_id \in turn_id_map
       THEN /\ turn_id_map' = turn_id_map \ {calls[th].old_turn_id}
            /\ calls' = [calls EXCEPT ![th].pc = "evicted"]
            /\ UNCHANGED last
       ELSE /\ raise_from_call(th, "KeyError")
            /\ UNCHANGED turn_id_map
    /\ UNCHANGED <<conversations, sequence_counter, uuid_counter, post_seqs,
                   update_stats>>

\* self.conversations.append(turn): a full deque drops its oldest turn, which
\* a thread that holds it as target keeps as it is now; an iterator over the
\* deque that another thread has open is invalidated
add_turn_append(th) ==
    /\ calls[th].pc = "evicted"
    /\ conversations' = DequeAppend(conversations, calls[th].turn, window_size)
    /\ calls' = [o \in Threads |->
          IF o = th THEN [calls[th] EXCEPT !.pc = "appended"]
          ELSE [calls[o] EXCEPT
                   !.mutated = @ \/ calls[o].pc = "iterating",
                   !.target = IF /\ Len(conversations) >= window_size
                                 /\ window_size > 0
                                 /\ Head(conversations).turn_id = @.turn_id
                              THEN Head(conversations) ELSE @]]
    /\ UNCHANGED <<turn_id_map, sequence_counter, uuid_counter, last, post_seqs,
                   update_stats>>

\* self.turn_id_map[turn.turn_id] = turn
add_turn_index(th) ==
    /\ calls[th].pc = "appended"
    /\ turn_id_map' = turn_id_map \cup {calls[th].turn.turn_id}
    /\ calls' = [calls EXCEPT ![th].pc = "added"]
    /\ UNCHANGED <<conversations, sequence_counter, uuid_counter, last, post_seqs,
                   update_stats>>

\* get_processing_target: if len(self.conversations) <= self.processing_delay
get_processing_target_check(th) ==
    /\ calls[th].pc = "added"
    /\ calls' = [calls EXCEPT ![th].pc = IF Len(conversations) <= processing_delay
                                         THEN "targeted" ELSE "long_enough"]
    /\ UNCHANGED <<winVars, last, post_seqs, update_stats>>

\* target_turn = self.conversations[target_index]
get_processing_target_read(th) ==
    /\ calls[th].pc = "long_enough"
    /\ calls' = [calls EXCEPT ![th].pc = "target_read",
                              ![th].target = conversations[TargetIndex(Window)]]
    /\ UNCHANGED <<winVars, last, post_seqs, update_stats>>

\* the turn object a thread holds: the one in the deque while it is there,
\* else as the deque dropped it (with two threads no other thread holds it)
held_turn(turns, held) ==
    IF \E i \in 1..Len(turns) : turns[i].turn_id = held.turn_id
    THEN turns[CHOOSE i \in 1..Len(turns) : turns[i].turn_id = held.turn_id]
    ELSE held

\* if target_turn.grag_processed: return None
get_processing_target_test(th) ==
    /\ calls[th].pc = "target_read"
    /\ calls' = [calls EXCEPT ![th].pc = "targeted",
                              ![th].target =
                                  IF held_turn(conversations, @).grag_processed
                                  THEN IdleCall.target ELSE @]
    /\ UNCHANGED <<winVars, last, post_seqs, update_stats>>

\* get_window_info: sum(1 for turn in self.conversations if ...) opens an
\* iterator over the deque
get_window_info_iterate(th) ==
    /\ calls[th].pc = "targeted"
    /\ calls' = [calls EXCEPT ![th].pc = "iterating", ![th].mutated = FALSE]
    /\ UNCHANGED <<winVars, last, post_seqs, update_stats>>

\* the iterator is used up: RuntimeError("deque mutated during iteration")
\* when a turn was appended meanwhile.  Without a target the call returns
\* right after the result is built
get_window_info_finish(th) ==
    /\ calls[th].pc = "iterating"
    /\ IF calls[th].mutated
       THEN raise_from_call(th, "RuntimeError") /\ UNCHANGED post_seqs
       ELSE IF calls[th].target.turn_id = NoId
       THEN return_result(th, FALSE, FALSE)
       ELSE /\ calls' = [calls EXCEPT ![th].pc = "informed"]
            /\ UNCHANGED <<last, post_seqs>>
    /\ UNCHANGED <<winVars, update_stats>>

\* _process_target_turn: self.update_stats["total_updates_attempted"] += 1
process_target_turn_attempt(th) ==
    /\ calls[th].pc = "informed"
    /\ update_stats' = [update_stats EXCEPT !.total_updates_attempted = @ + 1]
    /\ calls' = [calls EXCEPT ![th].pc = "attempted"]
    /\ UNCHANGED <<winVars, last, post_seqs>>

\* _process_without_agent writes nothing without a memory; mark_processed:
\* if turn_id not in self.turn_id_map: return False
mark_processed_check(th) ==
    /\ calls[th].pc = "attempted"
    /\ calls' = [calls EXCEPT ![th].pc = IF calls[th].target.turn_id \in turn_id_map
                                         THEN "found" ELSE "marked"]
    /\ UNCHANGED <<winVars, last, post_seqs, update_stats>>

\* turn = self.turn_id_map[turn_id]: KeyError when add_turn of another thread
\* has deleted the entry since the check
mark_processed_lookup(th) ==
    /\ calls[th].pc = "found"
    /\ calls' = [calls EXCEPT ![th].pc = IF calls[th].target.turn_id \in turn_id_map
                                         THEN "looked_up" ELSE "except"]
    /\ UNCHANGED <<winVars, last, post_seqs, update_stats>>

\* an attribute of a turn object is set; the deque shows it while it holds
\* the object
set_grag_processed(turns, turn_id, success) ==
    [i \in 1..Len(turns) |->
        IF turns[i].turn_id = turn_id
        THEN [turns[i] EXCEPT !.grag_processed = success] ELSE turns[i]]
set_grag_timestamp(turns, turn_id, success) ==
    [i \in 1..Len(turns) |->
        IF turns[i].turn_id = turn_id
        THEN [turns[i] EXCEPT !.grag_timestamp = IF success THEN "set" ELSE None]
        ELSE turns[i]]

\* turn.grag_processed = success
mark_processed_set(th) ==
    /\ calls[th].pc = "looked_up"
    /\ conversations' = set_grag_processed(conversations, calls[th].target.turn_id, TRUE)
    /\ calls' = [calls EXCEPT ![th].pc = "flagged"]
    /\ UNCHANGED <<turn_id_map, sequence_counter, uuid_counter, last, post_seqs,
                   update_stats>>

\* turn.grag_timestamp = datetime.now(timezone.utc) if success else None
mark_processed_stamp(th) ==
    /\ calls[th].pc = "flagged"
    /\ conversations' = set_grag_timestamp(conversations, calls[th].target.turn_id, TRUE)
    /\ calls' = [calls EXCEPT ![th].pc = "marked"]
    /\ UNCHANGED <<turn_id_map, sequence_counter, uuid_counter, last, post_seqs,
                   update_stats>>

\* self.update_stats["successful_updates"] += 1, whatever mark_processed
\* returned; return result
process_target_turn_succeed(th) ==
    /\ calls[th].pc = "marked"
    /\ update_stats' = [update_stats EXCEPT !.successful_updates = @ + 1]
    /\ return_result(th, TRUE, TRUE)
    /\ UNCHANGED winVars

\* except Exception: self.update_stats["failed_updates"] += 1
process_target_turn_except(th) ==
    /\ calls[th].pc = "except"
    /\ update_stats' = [update_stats EXCEPT !.failed_updates = @ + 1]
    /\ calls' = [calls EXCEPT ![th].pc = "except_counted"]
    /\ UNCHANGED <<winVars, last, post_seqs>>

\* self.sliding_window.mark_processed(target_turn.turn_id, False); return
process_target_turn_fail(th) ==
    /\ calls[th].pc = "except_counted"
    /\ conversations' = mark_processed(Window, calls[th].target.turn_id, FALSE).conversations
    /\ return_result(th, TRUE, FALSE)
    /\ UNCHANGED <<turn_id_map, sequence_counter, uuid_counter, update_stats>>

ThreadFrame ==
    /\ posts_only' = posts_only
    /\ UNCHANGED <<cfgVars, clock, syncs_done, state_table, fileVars, registryVars, memVars, state_snapshots,
                   conflict_stats, direct_calls, edits_done, commits_ok, edit_scn>>

\* SlidingWindowManager.get_processing_target called on its own
query_processing_target ==
    /\ last' = [NoLast EXCEPT !.op = "get_processing_target",
                              !.target_id = get_processing_target(Window)]
    /\ UNCHANGED <<cfgVars, clock, syncs_done, state_table, calls, fileVars, registryVars, winVars, memVars, update_stats,
                   state_snapshots, conflict_stats, direct_calls, edits_done,
                   post_seqs, posts_only, commits_ok, edit_scn>>

\* ------------------------------------------------------------------ steps
EditStep ==
    \E id \in EditIds, t \in EditTexts :
        /\ EditAllowed(id)
        /\ handle_conversation_modification(id, t[1], t[2])

ResolverEditStep ==
    \E id \in EditIds, m \in OfferedModificationTypes, t \in EditTexts :
        /\ EditAllowed(id)
        /\ cr_handle_conversation_modification(id, m, t[1], t[2])

\* the host lists offered while posts and edits interleave freely
CommonHistories ==
    {<<TavernTurn(ForeignId, NoSeq, "u", "a", None)>>,
     <<TavernTurn(1, NoSeq, "u", "b", None)>>,
     <<TavernTurn(NoId, NoSeq, "u", "b", None)>>,      \* a record without id
     <<TavernTurn(2, NoSeq, "u", "b", None), TavernTurn(ForeignId, NoSeq, "u", "a", None)>>}

SyncStep ==
    /\ syncs_done < MaxSyncs
    /\ \E h \in CommonHistories : sync_conversation_state(h)

DirectAnswers == IF grag_agent
                 THEN {<<"ok", a>> : a \in Analyses}
                      \cup {<<"error", NoOperations>>, <<"exception", NoOperations>>}
                 ELSE {<<None, NoOperations>>}

DirectStep ==
    /\ direct_calls < MaxDirect
    /\ \E r \in ReplyTexts, a \in DirectAnswers :
          extract_updates_from_response(r, "u", a[1], a[2])

\* the graph of one session under plans, direct edge additions and the mirror
GraphApplyStep ==
    /\ direct_calls < MaxApplies
    /\ \E a \in GraphAnalyses : extract_updates_from_response("a", "u", "ok", a)

AddEdgeStep ==
    \E e \in EdgeInputs : memory_add_edge(e[1], e[2], e[3])

Next ==
    \/ PostStep
    \/ EditStep
    \/ SyncStep

Spec == Init /\ [][Next]_vars

\* the same program created with the default window configuration
SpecDefault == InitDefault /\ [][Next]_vars

\* the resolver against a window that commits without agent and memory
InitResolver ==
    /\ InitWith({<<2, 1>>})
    /\ ~grag_agent
    /\ ~memory

ResolverSyncStep ==
    /\ syncs_done < MaxResolverSyncs
    /\ \E h \in TavernHistories : sync_conversation_state(h)

\* the resolver against lists whose records give sequences
NumberedSyncStep ==
    /\ syncs_done < MaxResolverSyncs
    /\ \E h \in NumberedHistories : sync_conversation_state(h)

NextRecords ==
    \/ PostStep
    \/ NumberedSyncStep
    \/ reset_stats

\* both small windows, committing without agent and memory
InitRecords ==
    /\ InitWith(SmallConfigs)
    /\ ~grag_agent
    /\ ~memory

SpecRecords == InitRecords /\ [][NextRecords]_vars

NextResolver ==
    \/ PostStep
    \/ ResolverEditStep
    \/ ResolverSyncStep
    \/ reset_stats

SpecResolver == InitResolver /\ [][NextResolver]_vars

\* update_turn called on its own
UpdateTurnStep ==
    \E id \in EditIds, t \in EditTexts :
        /\ EditAllowed(id)
        /\ window_update_turn(id, t[1], t[2])

\* housekeeping between posts and syncs: both statistics are reset,
\* snapshots are dropped by age and the window is cleared
SnapshotAges == {24}          \* max_age_hours: the default
HoursPassing == {30}          \* whole hours that pass between two calls

CleanupSnapshotsStep ==
    \E max_age_hours \in SnapshotAges, kept_at_cutoff \in SUBSET DOMAIN state_snapshots :
        cleanup_old_snapshots(max_age_hours, kept_at_cutoff)

\* time passes between two calls: nothing but the clock changes
hours_pass(hours) ==
    /\ clock' = clock + hours
    /\ last' = [NoLast EXCEPT !.op = "hours_pass"]
    /\ UNCHANGED <<cfgVars, winVars, memVars, fileVars, registryVars, update_stats,
                   state_snapshots, conflict_stats, direct_calls, edits_done,
                   post_seqs, posts_only, commits_ok, edit_scn, calls, syncs_done,
                   state_table>>

HoursPassStep ==
    \E hours \in HoursPassing :
        /\ clock + hours <= MaxClock
        /\ hours_pass(hours)

ClearWindowStep ==
    /\ uuid_counter <= MaxClearedIds
    /\ clear_window

NextMaintenance ==
    \/ PostStep
    \/ SyncStep
    \/ reset_stats
    \/ dm_reset_stats
    \/ CleanupSnapshotsStep
    \/ ClearWindowStep
    \/ HoursPassStep

SpecMaintenance == InitResolver /\ [][NextMaintenance]_vars

\* the two commit paths side by side: windowed posts and direct extraction
InitGraph ==
    /\ InitWith({<<2, 1>>})
    /\ grag_agent
    /\ memory

NextGraph ==
    \/ GraphApplyStep
    \/ AddEdgeStep
    \/ memory_save_all_memory
    \/ sync_entities_to_json
    \/ reload_entities_from_json
    \/ clear_all

SpecGraph == InitGraph /\ [][NextGraph]_vars

\* the state table is written with a world time, an empty one, and a weather
StateInputs == {<<"world_time", "noon">>, <<"world_time", "">>, <<"weather", "rain">>}

UpdateStateStep == \E s \in StateInputs : update_state(s[1], s[2])

\* the mutators of one memory facade between saves; the deleted nodes are
\* cleaned up at once and after more than the default thirty days
CleanupThreshold == 30
CleanupDays == {0, 31}

CleanupDeletedStep ==
    \E elapsed_days \in CleanupDays :
        cleanup_old_deleted_nodes(CleanupThreshold, elapsed_days)

FacadeConversationStep ==
    /\ Len(hot_memory) < MaxDirect
    /\ memory_add_conversation("hello", "ok")

NextFacade ==
    \/ GraphApplyStep
    \/ AddEdgeStep
    \/ FacadeConversationStep
    \/ UpdateStateStep
    \/ CleanupDeletedStep
    \/ memory_save_all_memory

SpecFacade == InitGraph /\ [][NextFacade]_vars

\* one memory with a graph file; the writes of save_all_memory can fail
SaveToPathStep == \E write_ok \in BOOLEAN : memory_save_to_path(write_ok)

NextPersist ==
    \/ GraphApplyStep
    \/ AddEdgeStep
    \/ SaveToPathStep

InitPersist ==
    /\ InitAt({<<2, 1>>}, {TestPath}, {0})
    /\ grag_agent
    /\ memory

SpecPersist == InitPersist /\ [][NextPersist]_vars

\* upserts of two characters: health below zero, in range and above the
\* maximum; maxima, levels and experience that rise and fall
UpsertNodes == {"n1", "n2"}
UpsertInputs ==
    {[health |-> -5], [health |-> 50], [health |-> 120],
     [max_health |-> 100], [max_health |-> 80],
     [level |-> 3], [level |-> 1],
     [experience |-> 10, level |-> 2], [experience |-> 5]}

UpsertStep ==
    \E n \in UpsertNodes, kwargs \in UpsertInputs :
        memory_add_or_update_node(n, "character", kwargs)

NextUpserts == UpsertStep

SpecUpserts == InitGraph /\ [][NextUpserts]_vars

\* one graph under every kind of plan, with the mirror written between applies
ApplyStep ==
    /\ direct_calls < MaxApplies
    /\ \E a \in ApplyAnalyses : extract_updates_from_response("a", "u", "ok", a)

NextApply ==
    \/ ApplyStep
    \/ sync_entities_to_json

SpecApply == InitGraph /\ [][NextApply]_vars

\* one session's memory under prompt requests
PromptApplyStep ==
    /\ direct_calls < MaxDirect
    /\ extract_updates_from_response("a", "u", "ok", PairOps)

AddConversationStep ==
    /\ Len(hot_memory) < MaxConversations
    /\ \E u \in PromptInputs, a \in ReplyTexts : memory_add_conversation(u, a)

EnhanceStep ==
    \E u \in PromptInputs, m \in ContextLimits : enhance_prompt(u, m)

NextPrompt ==
    \/ PromptApplyStep
    \/ AddConversationStep
    \/ UpdateStateStep
    \/ EnhanceStep

SpecPrompt == InitGraph /\ [][NextPrompt]_vars

\* two threads that call process_new_conversation on one manager
\* the reply each thread posts
ThreadReply(th) == IF th = "t1" THEN "a" ELSE "b"
CountStep ==
    \E th \in Threads : add_turn_count(th, "u", ThreadReply(th)) /\ ThreadFrame
BuildStep == \E th \in Threads : add_turn_build(th) /\ ThreadFrame
CheckFullStep == \E th \in Threads : add_turn_check_full(th) /\ ThreadFrame
ReadOldStep == \E th \in Threads : add_turn_read_old(th) /\ ThreadFrame
TestOldStep == \E th \in Threads : add_turn_test_old(th) /\ ThreadFrame
EvictStep == \E th \in Threads : add_turn_evict(th) /\ ThreadFrame
AppendStep == \E th \in Threads : add_turn_append(th) /\ ThreadFrame
IndexStep == \E th \in Threads : add_turn_index(th) /\ ThreadFrame
TargetCheckStep == \E th \in Threads : get_processing_target_check(th) /\ ThreadFrame
TargetReadStep == \E th \in Threads : get_processing_target_read(th) /\ ThreadFrame
TargetTestStep == \E th \in Threads : get_processing_target_test(th) /\ ThreadFrame
IterateStep == \E th \in Threads : get_window_info_iterate(th) /\ ThreadFrame
InfoStep == \E th \in Threads : get_window_info_finish(th) /\ ThreadFrame
AttemptStep == \E th \in Threads : process_target_turn_attempt(th) /\ ThreadFrame
MarkCheckStep == \E th \in Threads : mark_processed_check(th) /\ ThreadFrame
MarkLookupStep == \E th \in Threads : mark_processed_lookup(th) /\ ThreadFrame
MarkSetStep == \E th \in Threads : mark_processed_set(th) /\ ThreadFrame
MarkStampStep == \E th \in Threads : mark_processed_stamp(th) /\ ThreadFrame
SucceedStep == \E th \in Threads : process_target_turn_succeed(th) /\ ThreadFrame
ExceptStep == \E th \in Threads : process_target_turn_except(th) /\ ThreadFrame
FailStep == \E th \in Threads : process_target_turn_fail(th) /\ ThreadFrame

NextThreads ==
    \/ CountStep
    \/ BuildStep
    \/ CheckFullStep
    \/ ReadOldStep
    \/ TestOldStep
    \/ EvictStep
    \/ AppendStep
    \/ IndexStep
    \/ TargetCheckStep
    \/ TargetReadStep
    \/ TargetTestStep
    \/ IterateStep
    \/ InfoStep
    \/ AttemptStep
    \/ MarkCheckStep
    \/ MarkLookupStep
    \/ MarkSetStep
    \/ MarkStampStep
    \/ SucceedStep
    \/ ExceptStep
    \/ FailStep

SpecThreads == InitResolver /\ [][NextThreads]_vars

\* edits through every entry point: the manager's handler, the resolver's
\* handler and update_turn itself
NextEdits ==
    \/ PostStep
    \/ EditStep
    \/ ResolverEditStep
    \/ UpdateTurnStep

SpecEdits == Init /\ [][NextEdits]_vars

\* the server with its session registry
InitializeStep ==
    /\ session_ops < MaxSessionOps
    /\ \E sid \in SessionIds, is_test \in BOOLEAN :
          initialize_session(sid, CardName(sid), is_test)

UpdateMemoryStep ==
    /\ session_ops < MaxSessionOps
    /\ \E sid \in SessionIds :
          \E a \in SessionAnalyses(sid) : update_memory(sid, "ok", a)

SessionSyncStep ==
    /\ session_ops < MaxSessionOps
    /\ \E sid \in SessionIds : session_sync_entities_to_json(sid)

SessionClearStep ==
    /\ session_ops < MaxSessionOps
    /\ \E sid \in SessionIds : session_clear_all(sid)

ResetStep ==
    /\ session_ops < MaxSessionOps
    /\ \E sid \in SessionIds, keep \in BOOLEAN : reset_session(sid, keep)

NewSessionStep ==
    /\ session_ops < MaxSessionOps
    /\ \E name \in CharacterNames, stamp \in Timestamps : create_new_session(name, stamp)

ClearTestDataStep ==
    /\ session_ops < MaxSessionOps
    /\ clear_test_data

DeleteCharacterStep ==
    /\ session_ops < MaxSessionOps
    /\ \E name \in CharacterNames : delete_character(name)

NextSessions ==
    \/ InitializeStep
    \/ UpdateMemoryStep
    \/ SessionSyncStep
    \/ SessionClearStep
    \/ ResetStep
    \/ NewSessionStep
    \/ ClearTestDataStep
    \/ DeleteCharacterStep

\* the server process runs under either hash seed
InitSessions ==
    /\ InitAt({<<2, 1>>}, {NoPath}, HashSeeds)
    /\ grag_agent
    /\ memory

SpecSessions == InitSessions /\ [][NextSessions]_vars

InitDirect ==
    /\ InitWith(SmallConfigs)
    /\ memory

NextDirect ==
    \/ PostStep
    \/ DirectStep
    \/ query_processing_target

SpecDirect == InitDirect /\ [][NextDirect]_vars

\* ================================================================= claims
PostOp == "process_new_conversation"
SyncOp == "sync_conversation_state"

\* positions of the window, oldest first
Positions == 1..Len(conversations)

\* C1: in every reachable state of a session with processing delay D, under any
\* interleaving of posts, edits and syncs, none of the D newest turns of the
\* window has grag_processed set.
C1_DelayInvariant ==
    \A i \in Positions :
        i > Len(conversations) - processing_delay => ~conversations[i].grag_processed

\* a post has committed a turn, an edit and a sync have happened, and the
\* window holds more turns than the delay
C1_Witness ==
    /\ \E i \in Positions : conversations[i].grag_processed
    /\ edits_done > 0
    /\ conflict_stats.total_syncs > 0
    /\ Len(conversations) > processing_delay

\* the session has seen exactly the posts T1..T4, each commit succeeding
FourPostsDone ==
    /\ window_size = DefaultWindowSize
    /\ processing_delay = DefaultProcessingDelay
    /\ posts_only
    /\ commits_ok
    /\ post_seqs = <<1, 2, 3, 4>>

\* C2 (as stated): with window_size 4 and processing_delay 1, after the posts
\* T1..T4 with every commit succeeding, get_window_info reports
\* processed_turns = 2: T1 and T2 are processed, T3 and T4 are not.
C2_TwoProcessedAfterFour ==
    FourPostsDone =>
        /\ get_window_info(Window).processed_turns = 2
        /\ conversations[1].grag_processed /\ conversations[2].grag_processed
        /\ ~conversations[3].grag_processed /\ ~conversations[4].grag_processed

\* C2 (amended): with window_size 4 and processing_delay 1, after the posts
\* T1..T4 with every commit succeeding, get_window_info reports
\* processed_turns = 3: T1, T2 and T3 are processed and only T4 is not.
C2_ThreeProcessedAfterFour ==
    FourPostsDone =>
        /\ get_window_info(Window).processed_turns = 3
        /\ get_window_info(Window).pending_turns = 1
        /\ \A i \in 1..3 : conversations[i].grag_processed
        /\ ~conversations[4].grag_processed

C2_Witness ==
    /\ FourPostsDone
    /\ last.op = PostOp
    /\ last.target_id = 3
    /\ last.success

\* C3: with the default window, after post T1, post T2, edit T1, post T3 the
\* commit triggered by T3 takes the edited T1 as its target, so T1 ends up
\* processed with its edited content.
C3_EditedTurnReprocessed ==
    edit_scn = "T3" =>
        /\ last.target_id = conversations[1].turn_id
        /\ conversations[1].user_input = "v"
        /\ (last.success => conversations[1].grag_processed)

\* C4: when a commit fails and the failed turn is still in the window at the
\* next process_new_conversation call, that call selects the same turn as its
\* processing target.
C4_FailedTurnRetried ==
    [][(/\ last.op = PostOp
        /\ last.target_processed
        /\ ~last.success
        /\ last'.op = PostOp
        /\ post_seqs' # post_seqs
        /\ last.target_id \in turn_id_map')
       => last'.target_id = last.target_id]_vars

\* C5: the new_turn_sequence values of the process_new_conversation calls are
\* strictly increasing in call order, whatever edits and syncs come between,
\* and the sequences of the window's turns strictly increase from oldest to
\* newest.
C5_SequenceMonotonic ==
    /\ \A i, j \in 1..Len(post_seqs) : i < j => post_seqs[i] < post_seqs[j]
    /\ \A i \in Positions :
          i < Len(conversations) => conversations[i].sequence < conversations[i + 1].sequence

\* two posts with a sync that appended a turn between them, an edit, and a
\* window that has already slid
C5_Witness ==
    /\ \E i \in 1..Len(post_seqs) :
          i < Len(post_seqs) /\ post_seqs[i + 1] > post_seqs[i] + 1
    /\ edits_done > 0
    /\ sequence_counter > window_size
    /\ Len(conversations) = window_size

\* the host list of the scenario: T2 with another assistant text, then a turn
\* the server has not seen
ChangedT2ThenNew ==
    <<TavernTurn(2, NoSeq, "u", "b", None), TavernTurn(ForeignId, NoSeq, "u", "a", None)>>

\* the window held exactly the posted T1..T4 and the first sync just ran on
\* the scenario's list
SyncedAfterFourPosts ==
    /\ window_size = DefaultWindowSize
    /\ post_seqs = <<1, 2, 3, 4>>
    /\ edits_done = 0
    /\ conflict_stats.total_syncs = 1
    /\ last.op = SyncOp
    /\ last.tavern_history = ChangedT2ThenNew

\* C6: the window holds T1..T4 posted through process_new_conversation; on a
\* host list with a changed T2 and a new T5, sync_conversation_state returns
\* conflicts_detected = 1, conflicts_resolved = 1, new_turns = 1, and T2 then
\* holds the host's content with grag_processed = FALSE.
C6_SyncResolvesChangedTurn ==
    SyncedAfterFourPosts =>
        /\ last.sync.conflicts_detected = 1
        /\ last.sync.conflicts_resolved = 1
        /\ last.sync.new_turns = 1
        /\ \E i \in Positions :
              /\ conversations[i].turn_id = 2
              /\ conversations[i].llm_response = "b"
              /\ ~conversations[i].grag_processed

\* the step is a sync_conversation_state call on a list of one record
SyncsOneRecord == /\ last'.op = SyncOp
                  /\ conflict_stats'.total_syncs = conflict_stats.total_syncs + 1
                  /\ Len(last'.tavern_history) = 1

\* the sync left the window's turns, the snapshot map and the graph as they were
SyncFrame == /\ conversations' = conversations
             /\ turn_id_map' = turn_id_map
             /\ state_snapshots' = state_snapshots
             /\ graph_nodes' = graph_nodes
             /\ graph_attrs' = graph_attrs
             /\ graph_edges' = graph_edges

\* the first turn has left the window
FirstTurnEvicted == uuid_counter >= 1 /\ 1 \notin turn_id_map

Syncs == /\ last'.op = SyncOp
         /\ conflict_stats'.total_syncs = conflict_stats.total_syncs + 1

\* the record gives a sequence other than 0 that no turn of the window has
SequenceOutOfWindow(record) ==
    /\ record.sequence # NoSeq
    /\ record.sequence # 0
    /\ \A i \in Positions : conversations[i].sequence # record.sequence

SequenceInWindow(record) == ~SequenceOutOfWindow(record)

\* the record names by its id a turn that was in the window and no longer is,
\* and gives no sequence, the sequence 0 or the sequence of a turn of the window
NamesEvictedTurnById(record) ==
    /\ SequenceInWindow(record)
    /\ record.id \in 1..uuid_counter
    /\ record.id \notin turn_id_map

\* the record has text and its timestamp does not lie more than 24 hours back
Acceptable(record) ==
    /\ ~(record.user \in BlankTexts /\ record.assistant \in BlankTexts)
    /\ record.timestamp # "old"

\* records put to _process_tavern_turn in every reachable state: records that
\* give a sequence, under no id, the id of a turn and an id never issued, and
\* records under the ids of the first turns with every kind of sequence, text
\* and timestamp
SequencedRecords ==
    {TavernTurn(id, seq, "u", "b", None) :
        id \in {NoId, 1, 2, ForeignId}, seq \in {1, 2, 3, 7}}
TurnRecords ==
    {TavernTurn(id, seq, c[1], c[2], ts) :
        id \in 1..3, seq \in {NoSeq, 0, 1, 2, 3, 4},
        c \in {<<"u", "b">>, <<"", " ">>, <<" ", "b">>},
        ts \in {None, "old", "garbled"}}

\* what _process_tavern_turn makes of a record in the present state
Processed(record) ==
    process_tavern_turn([window |-> Window, snapshots |-> state_snapshots], record,
                        WindowSequences(Window))

\* out.window is the window with one new turn of the record's texts appended:
\* the turn has an id never drawn before and the next sequence number, is
\* unprocessed and has a snapshot, and the turns before it are the newest of
\* the old window
AppendedAsNewTurn(out, record) ==
    LET turns == out.window.conversations
        n == Len(turns)
        kept == n - 1
    IN /\ n = Min(Len(conversations) + 1, window_size)
       /\ turns[n].user_input = record.user
       /\ turns[n].llm_response = record.assistant
       /\ turns[n].turn_id \notin (1..uuid_counter) \cup {record.id}
       /\ turns[n].sequence = sequence_counter + 1
       /\ ~turns[n].grag_processed
       /\ SubSeq(turns, 1, kept)
             = SubSeq(conversations, Len(conversations) - kept + 1, Len(conversations))
       /\ out.window.turn_id_map = {turns[i].turn_id : i \in 1..n}
       /\ DOMAIN out.snapshots = DOMAIN state_snapshots \cup {turns[n].turn_id}
       /\ out.snapshots[turns[n].turn_id].content_hash
             = calculate_content_hash(record.user, record.assistant)
       /\ \A id \in DOMAIN state_snapshots : out.snapshots[id] = state_snapshots[id]

C8_ResolvedAtMostDetected ==
    /\ last.op = SyncOp => last.sync.conflicts_resolved <= last.sync.conflicts_detected
    /\ conflict_stats.conflicts_resolved <= conflict_stats.conflicts_detected

\* a sync has just detected and resolved a conflict, on top of an earlier sync
C8_Witness ==
    /\ last.op = SyncOp
    /\ last.sync.conflicts_detected = 1
    /\ last.sync.conflicts_resolved = 1
    /\ conflict_stats.conflicts_detected >= 1
    /\ conflict_stats.total_syncs >= 2

\* C9: when process_new_conversation processes a target turn of a session
\* with a memory, the turn's pair is appended to hot memory if and only if the
\* commit succeeded, with or without an agent.
C9_HotMemoryIffCommitted ==
    (last.op = PostOp /\ last.target_processed /\ memory) =>
        (last.hot_appended <=> last.success)

\* C10: whenever the LLM extractor fails on a turn (error marker or exception)
\* the rule extractor runs on that turn, on the synchronous path and on the
\* windowed path.
C10_RuleFallbackOnFailure ==
    last.llm_outcome \in {"error", "exception"} => last.rule_ran

\* ids of the elements of a plan list
NodeIdsOf(list) == {list[i].node_id : i \in 1..Len(list)}

\* C11: after a turn is committed, on the synchronous path or on the windowed
\* path, every node the plan of that turn creates (its nodes_to_add and its
\* nodes_to_update) and does not delete is a node of the knowledge graph.
C11_CreatedNodesExist ==
    last.committed =>
        \A n \in (NodeIdsOf(last.plan.nodes_to_add) \cup NodeIdsOf(last.plan.nodes_to_update))
                    \ NodeIdsOf(last.plan.nodes_to_delete) :
            n \in graph_nodes

\* C12: after any sequence of applied plans (upserts, edge additions, soft and
\* hard node deletions, edge deletions), direct edge additions and mirror
\* loads, both endpoints of every edge are nodes of the graph.
C12_NoDanglingEdges ==
    \A e \in graph_edges : e[1] \in graph_nodes /\ e[2] \in graph_nodes

\* a hard deletion removed a node that had edges, and edges remain
C12_Witness ==
    /\ last.op = "extract_updates_from_response"
    /\ last.plan = PlanLost
    /\ "n1" \notin graph_nodes
    /\ graph_edges # {}
    /\ entities_json.exists
    /\ \E r \in entities_json.relationships : r[1] = "n1"

ApplyOp == "extract_updates_from_response"

\* C13: when the plan that was just applied is applied again, the graph (node
\* set, every node's attributes, edge set) stays as the first application
\* left it, whatever the graph was before and whatever the plan is.
C13_ApplyTwiceIsApplyOnce ==
    [][(last.op = ApplyOp /\ last.committed
        /\ last'.op = ApplyOp /\ last'.committed
        /\ last'.plan = last.plan /\ direct_calls' = direct_calls + 1)
       => (graph_nodes' = graph_nodes /\ graph_attrs' = graph_attrs
           /\ graph_edges' = graph_edges)]_vars

\* (attribute, old_value, new_value) triples handed to resolve_attribute_conflict
ResolveSamples == {<<"health", 50, 120>>, <<"health", 50, 80>>,
                   <<"max_health", 100, 50>>, <<"level", 1, 2>>,
                   <<"status", "alive", "hurt">>,
                   <<"aliases", ListOf(<<"a">>), ListOf(<<"b">>)>>}

\* C14: resolve_attribute_conflict returns the same value for the same
\* (attribute, old_value, new_value) whichever node of the graph it is asked
\* about, so the result does not depend on the node's other attributes or on
\* the rest of the graph.
C14_ResolutionDependsOnTripleOnly ==
    \A a \in ResolveSamples : \A n, m \in graph_nodes :
        resolve_attribute_conflict(Graph, n, a[1], a[2], a[3])
            = resolve_attribute_conflict(Graph, m, a[1], a[2], a[3])

MemoryAddEdge == "add_edge"

\* C15: edges are identified by (source, target, relationship): when
\* add_edge(a, b, L1) is followed by add_edge(a, b, L2) between existing nodes,
\* then with L1 # L2 both edges are in the graph, and with L1 = L2 the pair
\* holds the single L1 edge.
C15_EdgesKeyedByRelationship ==
    [][(/\ last.op = MemoryAddEdge /\ last'.op = MemoryAddEdge
        /\ last.edge[1] = last'.edge[1] /\ last.edge[2] = last'.edge[2]
        /\ last.edge[1] \in graph_nodes /\ last.edge[2] \in graph_nodes)
       => IF last.edge[3] # last'.edge[3]
          THEN last.edge \in graph_edges' /\ last'.edge \in graph_edges'
          ELSE {e \in graph_edges' : e[1] = last.edge[1] /\ e[2] = last.edge[2]}
                    = {last.edge}]_vars

\* seed sets and depths asked of get_subgraph_for_context
NodeIds == {"n1", "n2", "n3"}
SeedSets == SUBSET NodeIds
Depths == 0..MaxDepth

SoftDeleted(n) == n \in graph_nodes /\ DictGet(graph_attrs[n], "_deleted", FALSE)

\* C16: a soft-deleted node stays in the graph with its deletion marker and
\* reason, and is in no result of get_subgraph_for_context, for any seed set
\* (the node itself included) and any depth.
C16_SoftDeletedNeverInSubgraph ==
    \A n \in NodeIds : SoftDeleted(n) =>
        /\ "_deleted_reason" \in DOMAIN graph_attrs[n]
        /\ \A S \in SeedSets, d \in Depths :
              n \notin get_subgraph_for_context(Graph, S, d).nodes

\* the nodes within d hops of S when an edge is a hop in either direction
Predecessors(g, S) == {e[1] : e \in {x \in g.edges : x[2] \in S}}
RECURSIVE WithinHops(_, _, _)
WithinHops(g, S, d) ==
    IF d <= 0 THEN S
    ELSE LET inner == WithinHops(g, S, d - 1)
         IN inner \cup Successors(g, inner) \cup Predecessors(g, inner)

\* C17: get_subgraph_for_context(seeds, d) contains every node that is not
\* deleted and is within d hops of a seed of the graph when edges are followed
\* in either direction, predecessors as well as successors.
C17_SubgraphFollowsBothDirections ==
    \A S \in SeedSets, d \in Depths :
        {n \in WithinHops(Graph, S \cap graph_nodes, d) : ~SoftDeleted(n)}
            \subseteq get_subgraph_for_context(Graph, S, d).nodes

\* C18: for every seed set S and depth d >= 1 the nodes of
\* get_subgraph_for_context(S, d) include those of
\* get_subgraph_for_context(S, d - 1), and each of them is within d hops of
\* some seed.
C18_SubgraphGrowsWithinDepth ==
    \A S \in SeedSets, d \in Depths \ {0} :
        /\ get_subgraph_for_context(Graph, S, d - 1).nodes
                \subseteq get_subgraph_for_context(Graph, S, d).nodes
        /\ get_subgraph_for_context(Graph, S, d).nodes \subseteq WithinHops(Graph, S, d)

\* a chain n1 -> n2 -> n3: each further hop from n1 adds a node
C18_Witness ==
    /\ get_subgraph_for_context(Graph, {"n1"}, 0).nodes = {"n1"}
    /\ get_subgraph_for_context(Graph, {"n1"}, 1).nodes = {"n1", "n2"}
    /\ get_subgraph_for_context(Graph, {"n1"}, 2).nodes = {"n1", "n2", "n3"}

\* the nodes the requests of a session name: its main character and the node
\* of its plans
OwnNodes(session_id) ==
    {generate_rpg_entity_id(CardName(session_id), "character")}
        \cup NodeIdsOf(SessionPlan(session_id).nodes_to_update)

\* C19: a session's graph is affected only by operations on that session:
\* whatever operations other sessions perform (apply, clear_all, mirror sync),
\* every node a session loads or holds was written by that session.
C19_SessionHoldsOnlyItsOwn ==
    \A sid \in DOMAIN sessions : sessions[sid].graph.nodes \subseteq OwnNodes(sid)

\* C20: after reset_session without keep_character_data the session has no
\* registered component (engine, DelayedUpdateManager, ConflictResolver), and
\* a session created afterwards under the same id, with a sliding window
\* configured, starts with an empty window and an empty snapshot map.
C20_ResetRemovesEveryComponent ==
    /\ (last.op = "reset_session" /\ ~last.keep_character_data) =>
            /\ last.session \notin DOMAIN sessions
            /\ last.session \notin DOMAIN sliding_window_managers
            /\ last.session \notin DOMAIN conflict_resolvers
    /\ (last.op = "initialize_session" /\ last.created /\ last.session \in reset_ids) =>
            /\ last.session \in DOMAIN sliding_window_managers
            /\ sliding_window_managers[last.session].conversations = <<>>
            /\ last.session \in DOMAIN conflict_resolvers
            /\ conflict_resolvers[last.session].state_snapshots = <<>>

\* C21: after save_all_memory has run on a memory with unsaved changes (the
\* last step of update_memory), data/entities.json holds exactly the nodes and
\* edges of that memory's graph
C21_MirrorEqualsGraphAfterSave ==
    (last.op = "update_memory" /\ last.was_dirty /\ last.saved)
        => entities_json = EntitiesFile(sessions[last.session].graph)

\* C22: the graph file written by save_graph, read by load_graph into a fresh
\* KnowledgeGraph, gives back the nodes, edges and attribute values of the
\* graph in memory, texts that look like a bracketed list included
C22_SaveLoadRoundTrip ==
    (last.op = "update_memory" /\ last.saved)
        => load_graph(EmptyGraph, graph_files, sessions[last.session].graph_save_path)
               = sessions[last.session].graph

\* C23: whatever max_context_length M a request carries, the enhanced_context
\* that enhance_prompt returns is at most M characters long
C23_ContextWithinLimit ==
    last.op = "enhance_prompt"
        => Len(last.enhanced_context) <= last.max_context_length

\* the sections the last enhance_prompt request was answered from
LastTurns == recent_turns_for(last.max_context_length)
LastGraphSection == GraphSection(Graph, analyze(last.user_input, Graph))
LastFullContext ==
    retrieve_context_for_prompt(Graph, hot_memory, state_table,
                                analyze(last.user_input, Graph),
                                LastTurns)

\* C24: when enhance_prompt truncates, the output is the whole history
\* section, the whole world-state section, a prefix of the graph section and
\* the truncation marker
C24_OnlyGraphSectionShortened ==
    (last.op = "enhance_prompt" /\ Len(LastFullContext) > last.max_context_length)
        => \E k \in 0..Len(LastGraphSection) :
              last.enhanced_context =
                  HistorySection(hot_memory, LastTurns) \o WorldStateSection(state_table)
                      \o head_slice(LastGraphSection, k) \o TruncationMarker

\* C25: after process_new_conversation calls that overlapped in time, the
\* turns in the window carry distinct sequence numbers and turn_id_map holds
\* exactly the ids of the window, as after calls made one after the other
C25_ConcurrentCallsSerialized ==
    (\A th \in Threads : calls[th].pc = "idle")
        => /\ \A i, j \in 1..Len(conversations) :
                 i # j => conversations[i].sequence # conversations[j].sequence
           /\ turn_id_map = {conversations[i].turn_id : i \in 1..Len(conversations)}

\* C26: get_processing_target returns the turn at 0-based index len-1-D exactly
\* when the window holds more than D turns and that turn is unprocessed, None
\* in every other case, and the window is the same after the call
C26_TargetIffPendingBeyondDelay ==
    [][last'.op = "get_processing_target"
         => /\ UNCHANGED winVars
            /\ LET n == Len(conversations)
                   pending == /\ n > processing_delay
                              /\ ~conversations[n - processing_delay].grag_processed
               IN last'.target_id = IF pending
                                    THEN conversations[n - processing_delay].turn_id
                                    ELSE NoId]_vars

\* a call that returned a turn: the window is beyond the delay and the commit
\* of the turn at the target index had failed
C26_Witness ==
    /\ last.op = "get_processing_target"
    /\ last.target_id # NoId
    /\ Len(conversations) > processing_delay
    /\ update_stats.failed_updates > 0

\* the ids of the turns in a window, oldest first
TurnIds(turns) == [i \in 1..Len(turns) |-> turns[i].turn_id]
\* the ids drawn from first + 1 up to last, in the order they were drawn
RECURSIVE FreshIds(_, _)
FreshIds(first, final) ==
    IF first >= final THEN <<>> ELSE <<first + 1>> \o FreshIds(first + 1, final)

\* C27: the window never holds more than window_size turns and turn_id_map is
\* exactly the set of ids in the window; every step but clear_window keeps
\* the window a suffix of the old turns followed by the newly created ones,
\* so add_turn removes turns only from the oldest end; clear_window empties
\* window and index together; and an id that left the window is never in it
\* again
C27_WindowBoundedAndIndexed ==
    /\ [](/\ Len(conversations) <= window_size
          /\ turn_id_map = {conversations[i].turn_id : i \in 1..Len(conversations)})
    /\ [][LET all == TurnIds(conversations) \o FreshIds(uuid_counter, uuid_counter')
              keep == Min(window_size, Len(all))
          IN /\ IF last'.op = "clear_window"
                THEN conversations' = <<>>
                ELSE TurnIds(conversations') = SubSeq(all, Len(all) - keep + 1, Len(all))
             /\ \A id \in 1..uuid_counter :
                   id \notin turn_id_map => id \notin turn_id_map']_vars

\* add_turn ran on a full window that was filled again after a clear_window:
\* the oldest turn is gone, the others remain
C27_Witness ==
    /\ last.op = "process_new_conversation"
    /\ Len(conversations) = window_size
    /\ uuid_counter > sequence_counter
    /\ sequence_counter > window_size
    /\ 1 \notin turn_id_map

\* C28: update_turn on an id in the window returns True, raises that turn's
\* version by one, clears its grag_processed and leaves every other turn as
\* it was; on an id outside the window it returns False and changes nothing
C28_UpdateTurnBumpsVersion ==
    [][\A id \in EditIds, t \in EditTexts :
          window_update_turn(id, t[1], t[2])
            => IF id \in turn_id_map
               THEN LET i == IndexOfId(Window, id)
                    IN /\ last'.success
                       /\ Len(conversations') = Len(conversations)
                       /\ conversations'[i].version = conversations[i].version + 1
                       /\ ~conversations'[i].grag_processed
                       /\ \A j \in 1..Len(conversations) :
                             j # i => conversations'[j] = conversations[j]
                       /\ UNCHANGED <<turn_id_map, sequence_counter>>
               ELSE /\ ~last'.success
                    /\ UNCHANGED <<winVars, memVars, state_snapshots>>]_vars

\* update_turn hit the first turn after its commit had succeeded
C28_Witness ==
    /\ last.op = "update_turn"
    /\ last.success
    /\ update_stats.successful_updates = 1
    /\ update_stats.total_updates_attempted = 1
    /\ Len(conversations) = processing_delay + 1
    /\ conversations[1].version = 2
    /\ ~conversations[1].grag_processed

\* C29: an edit addressed to an id that is not in the window, through the
\* manager's handler or the resolver's, answers out_of_window and leaves the
\* window, the snapshot map and the memory as they were
C29_EditOutsideWindowIgnored ==
    [][\A id \in EditIds \ turn_id_map, t \in EditTexts :
          (\/ handle_conversation_modification(id, t[1], t[2])
           \/ \E m \in OfferedModificationTypes :
                 cr_handle_conversation_modification(id, m, t[1], t[2]))
            => /\ last'.reason = "out_of_window"
               /\ UNCHANGED <<winVars, state_snapshots, memVars>>]_vars

\* an edit named the first turn after it was evicted, with a snapshot on record
C29_Witness ==
    /\ last.op \in {"handle_conversation_modification",
                    "cr_handle_conversation_modification"}
    /\ last.reason = "out_of_window"
    /\ uuid_counter > window_size
    /\ 1 \notin turn_id_map
    /\ state_snapshots # <<>>

\* the operations that act through the mutators of the memory facade
FacadeOps == {"extract_updates_from_response", "add_edge", "add_conversation",
              "update_state"}

\* C30: a facade operation that changes the graph, the turn buffer or the
\* state table leaves _data_changed set, so that the next save_all_memory
\* writes
C30_MutationSetsDirtyFlag ==
    [][(/\ last'.op \in FacadeOps
        /\ <<graph_nodes, graph_attrs, graph_edges, hot_memory, state_table>>'
              # <<graph_nodes, graph_attrs, graph_edges, hot_memory, state_table>>)
          => data_changed']_vars

\* C31: when the graph write of save_all_memory fails, _data_changed stays
\* set, so that the next save_all_memory writes again; the flag is cleared
\* only by a save whose write succeeded
C31_FailedWriteKeepsDirtyFlag ==
    (last.op = "save_all_memory" /\ last.was_dirty /\ ~last.write_ok) => data_changed

\* the nodes a plan removes for good, and the positions at which it upserts a node
HardDeleted(plan) ==
    {plan.nodes_to_delete[i].node_id :
        i \in {j \in 1..Len(plan.nodes_to_delete) :
                  plan.nodes_to_delete[j].deletion_type = "lost"}}
UpsertsOf(plan, n) ==
    {i \in 1..Len(plan.nodes_to_update) : plan.nodes_to_update[i].node_id = n}
\* the pairs a plan adds an edge for
AddedPairs(plan) ==
    {<<plan.edges_to_add[i].source, plan.edges_to_add[i].target>> :
        i \in 1..Len(plan.edges_to_add)}

\* C32: within one _apply_validated_updates the deletions act first, the
\* upserts second and the edge additions last: an upserted node is in the
\* graph even when the plan also removes it, and then carries the upsert's
\* attributes only; an added edge between nodes of the graph is in the graph
\* even when the plan also deletes it; and a removed node keeps no edge other
\* than the ones the plan adds
C32_DeletesThenUpsertsThenEdges ==
    (last.op = ApplyOp /\ last.committed) =>
        LET plan == last.plan
        IN /\ \A n \in NodeIdsOf(plan.nodes_to_update) : n \in graph_nodes
           /\ \A n \in HardDeleted(plan) :
                 /\ \A i \in UpsertsOf(plan, n) :
                       Cardinality(UpsertsOf(plan, n)) = 1 =>
                          [key \in DOMAIN graph_attrs[n] \ {"type"} |-> graph_attrs[n][key]]
                              = plan.nodes_to_update[i].attributes
                 /\ \A e \in graph_edges :
                       (e[1] = n \/ e[2] = n) => <<e[1], e[2]>> \in AddedPairs(plan)
           /\ \A i \in 1..Len(plan.edges_to_add) :
                 LET a == plan.edges_to_add[i]
                 IN (/\ a.source \in graph_nodes /\ a.target \in graph_nodes
                     /\ \A j \in (i + 1)..Len(plan.edges_to_add) :
                           <<plan.edges_to_add[j].source, plan.edges_to_add[j].target>>
                               # <<a.source, a.target>>)
                    => <<a.source, a.target, a.relationship>> \in graph_edges

\* the replacement was applied to a graph in which the first node had a
\* health and knew the second, as the mirror written before still shows
C32_Witness ==
    /\ last.op = ApplyOp
    /\ last.plan = PlanReplace
    /\ entities_json.exists
    /\ "n1" \in DOMAIN entities_json.entities
    /\ "health" \in DOMAIN entities_json.entities["n1"].attributes
    /\ <<"n1", "n2", "knows">> \in entities_json.relationships
    /\ graph_attrs["n1"] = [type |-> "unknown", level |-> 1]
    /\ <<"n1", "n2", "knows">> \in graph_edges

\* the nodes a plan creates or updates
UpsertedBy(plan) == NodeIdsOf(plan.nodes_to_add) \cup NodeIdsOf(plan.nodes_to_update)

\* C33: the plan ValidationLayer.validate returns for the graph it is applied
\* to holds no edge with an endpoint that is neither a node of that graph nor
\* upserted by the plan
C33_ValidatedPlanHasNoDanglingEdge ==
    [][(last'.op = ApplyOp /\ direct_calls' = direct_calls + 1) =>
          LET validated == validate(last'.plan, Graph)
          IN \A i \in 1..Len(validated.edges_to_add) :
                /\ validated.edges_to_add[i].source
                        \in graph_nodes \cup UpsertedBy(validated)
                /\ validated.edges_to_add[i].target
                        \in graph_nodes \cup UpsertedBy(validated)]_vars

\* an edge deletion that names no source, no target and no relationship
AllWildcard(edge_deletion) ==
    /\ edge_deletion.source = "*"
    /\ edge_deletion.target = "*"
    /\ edge_deletion.relationship = "*"

\* C34: an edge deletion whose source, target and relationship are all
\* wildcards is rejected: a plan that holds nothing but such deletions, once
\* validated and applied, leaves every edge of the graph in place
C34_AllWildcardDeletionRejected ==
    [][(/\ last'.op = ApplyOp /\ direct_calls' = direct_calls + 1
        /\ last'.plan.edges_to_delete # <<>>
        /\ \A i \in 1..Len(last'.plan.edges_to_delete) :
              AllWildcard(last'.plan.edges_to_delete[i])
        /\ last'.plan.nodes_to_delete = <<>>
        /\ last'.plan.nodes_to_update = <<>>
        /\ last'.plan.edges_to_add = <<>>)
       => graph_edges' = graph_edges]_vars

\* C35: when an upsert merges a health value into a node that exists and has
\* max_health, the health stored afterwards lies between 0 and max_health,
\* whatever the new value is
C35_HealthWithinBounds ==
    [][(/\ last'.op = "add_or_update_node"
        /\ "health" \in DOMAIN last'.kwargs
        /\ last'.node_id \in graph_nodes
        /\ "max_health" \in DOMAIN graph_attrs[last'.node_id])
       => /\ graph_attrs'[last'.node_id].health >= 0
          /\ graph_attrs'[last'.node_id].health
                <= graph_attrs'[last'.node_id].max_health]_vars

\* C36: over any sequence of upserts with numeric values, level, experience
\* and max_health of a node that stays in the graph never decrease
C36_StatsNeverDecrease ==
    [][\A n \in graph_nodes \cap graph_nodes' :
          \A a \in {"level", "experience", "max_health"} \cap DOMAIN graph_attrs[n] :
             /\ a \in DOMAIN graph_attrs'[n]
             /\ graph_attrs'[n][a] >= graph_attrs[n][a]]_vars

\* an upsert offered a lower level and a lower maximum than the node holds
C36_Witness ==
    /\ last.op = "add_or_update_node"
    /\ last.kwargs = [level |-> 1]
    /\ last.node_id \in graph_nodes
    /\ DictGet(graph_attrs[last.node_id], "level", 0) = 3
    /\ DictGet(graph_attrs[last.node_id], "max_health", 0) = 100
    /\ DictGet(graph_attrs[last.node_id], "experience", 0) = 10

\* C37: while only process_new_conversation is called, window_size exceeds
\* the delay D and every commit succeeds, the k-th call selects turn k - D
\* (none for k <= D): every turn is selected once, in sequence order, by the
\* call that appends the D-th turn after it, and no turn leaves the window
\* unprocessed
C37_EveryTurnProcessedOnceInOrder ==
    (posts_only /\ commits_ok /\ window_size > processing_delay) =>
        LET k == sequence_counter
            done == Max(k - processing_delay, 0)
        IN /\ post_seqs = [i \in 1..k |-> i]
           /\ last.op = PostOp =>
                 last.target_id = IF k > processing_delay
                                  THEN k - processing_delay ELSE NoId
           /\ update_stats.total_updates_attempted = done
           /\ update_stats.successful_updates = done
           /\ \A i \in Positions :
                 /\ conversations[i].turn_id = conversations[i].sequence
                 /\ conversations[i].grag_processed <=> conversations[i].sequence <= done
           /\ \A s \in 1..k :
                 s \notin WindowSequences(Window) => s <= done

\* the window has slid twice under posts alone and the newest call selected
\* the turn D places behind the one it appended
C37_Witness ==
    /\ posts_only /\ commits_ok
    /\ last.op = PostOp
    /\ sequence_counter = window_size + 2
    /\ last.target_id = sequence_counter - processing_delay
    /\ last.success
    /\ update_stats.successful_updates = sequence_counter - processing_delay
    /\ Head(conversations).grag_processed

\* C38: when sync_conversation_state receives the list it has just received,
\* the second call reports new_turns = 0 and conflicts_detected = 0 and leaves
\* the window (turns, versions, processed flags) as it was
C38_SyncTwiceIsSyncOnce ==
    [][(/\ last.op = SyncOp /\ last'.op = SyncOp
        /\ conflict_stats'.total_syncs = conflict_stats.total_syncs + 1
        /\ last'.tavern_history = last.tavern_history)
       => /\ last'.sync.new_turns = 0
          /\ last'.sync.conflicts_detected = 0
          /\ conversations' = conversations
          /\ turn_id_map' = turn_id_map]_vars

\* C39: every turn of the window that has an entry in state_snapshots is
\* recorded there with the hash of its current user_input and llm_response,
\* after any interleaving of posts, syncs and edits through either handler
C39_SnapshotsMatchContent ==
    \A i \in Positions :
        conversations[i].turn_id \in DOMAIN state_snapshots =>
            state_snapshots[conversations[i].turn_id].content_hash
                = calculate_content_hash(conversations[i].user_input,
                                         conversations[i].llm_response)

\* C40: for every starting graph and every plan, the graph after the plan is
\* committed through the synchronous path (_apply_validated_updates) is the
\* graph the windowed path (DelayedUpdateManager._apply_updates) produces from
\* the same start: nodes, node types and attributes, edges, deletion markers
C40_WindowedCommitEqualsSynchronous ==
    [][(last'.op = ApplyOp /\ direct_calls' = direct_calls + 1) =>
          LET windowed == apply_updates(Graph, memory, last'.plan)
          IN /\ graph_nodes' = windowed.nodes
             /\ graph_attrs' = windowed.attrs
             /\ graph_edges' = windowed.edges]_vars

====
